---- MODULE Spec2Model ----
(***************************************************************************)
(* Model of bitwarden_cli_toolkit: the BWCli wrapper (session handling,    *)
(* process transport, sidecar start) and the permission inheritance run.   *)
(*                                                                         *)
(* Spec          : one BWCli instance driven by a main thread, with the    *)
(*                 run_server threads that login_as_user starts.           *)
(* SpecInherit   : one inherit_permissions window over a list of targets.  *)
(* SpecRoundTrip : list organizations, then get one of the listed.         *)
(* SpecRest      : list, get, edit and org_collection with arguments.      *)
(* SpecGui       : main_gui and inheritor_gui with their worker threads.   *)
(* SpecConfig    : save_config.                                            *)
(***************************************************************************)
EXTENDS Integers, Sequences, FiniteSets, TLC

VARIABLES
    session,          \* BWCli._session
    use_rest,         \* BWCli.use_rest
    rest_is_running,  \* BWCli._rest_is_running
    env,              \* os.environ["BW_SESSION"] (PyNone: not in the environment)
    pc,               \* main thread: the source line it stands at
    stack,            \* main thread: return labels of the calls in progress
    args,             \* run(): the command of the call in progress
    rv,               \* return value of the call that returned last
    op,               \* the top-level method called last
    server_url,       \* config(): its server_url argument
    pre,              \* session state when that method was called
    issued,           \* commands executed since that method was called, each with
                      \* its raw flag, the BW_SESSION it ran with, the token then
                      \* held, its exit code and its output
    threads,          \* run_server threads: how many stand at each source line
    sidecars,         \* number of "bw serve" processes spawned
    hooks,            \* number of atexit kill hooks registered
    vault,            \* the vault: the org-collection stored under each id
    collection_ids,   \* inherit_permissions: the target ids
    user_permissions, \* inherit_permissions: the users to propagate
    group_permissions,\* inherit_permissions: the groups to propagate
    pos,              \* inherit_permissions: targets the for loop has taken
    index,            \* inherit_permissions: index
    collection,       \* inherit_permissions: collection
    has_failures,     \* inherit_permissions: has_failures
    output,           \* the "output" field of the window: one entry per line
    progress,         \* the n of "n/N collections processed"
    popup,            \* the popup shown last
    gui,              \* the line the GUI thread stands at
    cont,             \* the line minimal_gui_thread_runner returns to
    future,           \* minimal_gui_thread_runner: future
    workers,          \* worker threads that have not finished, each with its
                      \* function, its client and its arguments
    cli,              \* main_gui: number of the client constructed last
    organization_id,  \* inheritor_gui: organization_id
    objects,          \* inheritor_gui: objects["collections"], in insertion order
    collection_name,  \* inheritor_gui: values["collection_name"]
    child_collection_ids, \* inheritor_gui: child_collection_ids
    collection_conf,  \* inheritor_gui: collection_conf
    launched,         \* the arguments of the last inherit_permissions call
    full_config,      \* save_config: full_config, the configuration in memory
    config_file,      \* what the configuration file holds
    kwargs            \* list, get, edit, org_collection: the arguments of the call

sessionVars == <<session, use_rest, rest_is_running, env, pc, stack, args, rv, op,
                 server_url, pre, issued, threads, sidecars, hooks>>

configVars == <<full_config, config_file, kwargs>>

guiVars == <<gui, cont, future, workers, cli, organization_id, objects,
             collection_name, child_collection_ids, collection_conf, launched,
             configVars>>

inheritRest == <<collection_ids, user_permissions, group_permissions, pos, index,
                 collection, has_failures, output, progress, popup, guiVars>>

inheritVars == <<vault, inheritRest>>

vars == <<sessionVars, inheritVars>>

----------------------------------------------------------------------------
(* Python values.  Every value is a record [t, v] with v a sequence of      *)
(* strings, so that any two values can be compared.  A str is the sequence  *)
(* of its characters.                                                       *)

PyNone   == [t |-> "None",   v |-> <<>>]
PyTrue   == [t |-> "bool",   v |-> <<"True">>]
PyFalse  == [t |-> "bool",   v |-> <<"False">>]
PyFuture == [t |-> "Future", v |-> <<>>]
Str(s)   == [t |-> "str",    v |-> s]
Json(d)  == [t |-> "json",   v |-> d]

\* an exception raised instead of a value returned
PyRaise(e) == [t |-> "raise", v |-> <<e>>]

\* Python truth value: None, False, "", {} and [] are falsy.
Truthy(x) ==
    CASE x.t = "None"   -> FALSE
      [] x.t = "bool"   -> x = PyTrue
      [] x.t = "str"    -> x.v # <<>>
      [] x.t = "json"   -> x.v \notin {<<"{}">>, <<"{", "}">>, <<"[", "]">>}
      [] x.t = "Future" -> TRUE

IsSpace(c) == c \in {" ", "\n"}

RECURSIVE LStrip(_)
LStrip(s) == IF s = <<>> THEN s
             ELSE IF IsSpace(Head(s)) THEN LStrip(Tail(s)) ELSE s

RECURSIVE RStrip(_)
RStrip(s) == IF s = <<>> THEN s
             ELSE IF IsSpace(s[Len(s)]) THEN RStrip(SubSeq(s, 1, Len(s) - 1)) ELSE s

\* str.strip()
Strip(x) == Str(RStrip(LStrip(x.v)))

----------------------------------------------------------------------------
(* The external bw executable: what a command may print and exit with.     *)

MaxThreads == 2

StatusDocs == {<<"{status:locked}">>, <<"{status:unlocked}">>,
               <<"{status:unauthenticated}">>}

\* what "bw status" may print: a state, another state, an object without a
\* state, an empty object, or something that is no JSON
StatusOutputs == StatusDocs \cup {<<"{status:other}">>, <<"{server:url}">>, <<"{}">>,
                                  <<"x">>}

\* the object has a "status" key
HasStatus(d) == d \in StatusDocs \cup {<<"{status:other}">>}

\* Other outputs json.loads accepts.
JsonDocs == StatusDocs \cup {<<"{}">>, <<"{status:other}">>, <<"{server:url}">>}

RawOutputs == {<<>>, <<" ">>, <<"a", "\n">>}

Outcome(e, o) == [exit |-> e, out |-> o]

(* A JSON object is the sequence "{", key, value, ..., "}".  An org-collection *)
(* has id, name, users and groups, the fields the program looks at.          *)
Doc(c, n, u, g) ==
    <<"{", "id", c, "name", n, "users">> \o u \o <<"groups">> \o g \o <<"}">>

IsObject(d) == Len(d) >= 2 /\ d[1] = "{" /\ d[Len(d)] = "}"

\* a JSON list is the sequence "[", element, ..., "]"
IsList(d) == Len(d) >= 2 /\ d[1] = "[" /\ d[Len(d)] = "]"

HasKey(d, k) == \E j \in DOMAIN d : d[j] = k

IndexOf(d, k) == CHOOSE j \in DOMAIN d : d[j] = k /\ \A h \in 1..(j - 1) : d[h] # k

DocId(d)   == d[IndexOf(d, "id") + 1]
DocName(d) == d[IndexOf(d, "name") + 1]
Users(d)   == SubSeq(d, IndexOf(d, "users") + 1, IndexOf(d, "groups") - 1)
Groups(d)  == SubSeq(d, IndexOf(d, "groups") + 1, Len(d) - 1)

\* an object the vault may answer with that is no collection: it has no name
Nameless(c) == <<"{", "id", c, "}">>

\* bw encode: base64 of its input; and what the vault makes of it
B64(str) == <<"b64">> \o str
IsB64(str) == str # <<>> /\ Head(str) = "b64"
B64Decode(str) == Tail(str)

Ids == {"c1", "c2"}

\* what "bw list" may print: the ids of the objects, or no object
ListOutputs == {<<"[", "c1", "c2", "]">>, <<"[", "]">>}

NameOf(c) == IF c = "c1" THEN "Parent/c1" ELSE "Parent/c2"

\* the payload the vault reads out of an edit command or an update request
Payload(a) ==
    IF a.cmd = "edit" THEN B64Decode(a.data.v) ELSE a.data.v

\* the vault after the command or request a with outcome o
Stored(a, o) ==
    IF a.cmd \in {"edit", "update"} /\ o.exit = 0
    THEN [vault EXCEPT ![a.id] = Payload(a)]
    ELSE vault

Outcomes(a) ==
    {Outcome(1, <<"e">>)} \cup
    CASE a.cmd = "status"     -> {Outcome(0, d) : d \in StatusOutputs}
      [] a.cmd = "config_get" -> {Outcome(0, <<"{server:url}">>)}
      [] a.cmd = "get"        -> {Outcome(0, vault[a.id]), Outcome(0, Nameless(a.id))}
      [] a.cmd = "list"       -> {Outcome(0, l) : l \in ListOutputs}
      [] a.cmd = "edit"       -> IF a.data.t = "str" /\ IsB64(a.data.v)
                                 THEN {Outcome(0, B64Decode(a.data.v))}
                                 ELSE {}
      [] OTHER                -> {Outcome(0, o) : o \in RawOutputs}

----------------------------------------------------------------------------
(* BWCli.run: the process transport.                                       *)

\* line 161: the token is put into the environment
run_sets_env(with_session, sess) == with_session /\ Truthy(sess)

\* line 169: the token is taken out of the environment
run_pops_env(sess) == Truthy(sess)

\* json.loads succeeds
IsJson(out) == out \in JsonDocs \/ IsObject(out) \/ IsList(out)

\* not the code, a faulty variant: the output of a failed command is handed back
run_result_output(exit, out, raw) ==
    IF exit = 0
    THEN IF raw THEN Str(out)
         ELSE IF IsJson(out) THEN Json(out) ELSE PyNone
    ELSE Str(out)

\* lines 173-187: the value run returns
run_result(exit, out, raw) ==
    IF exit = 0
    THEN IF raw THEN Str(out)
         ELSE IF IsJson(out) THEN Json(out) ELSE PyNone
    ELSE PyNone

\* the arguments of a run call: the command, the object id and the payload
CmdOf(kind, c, raw, id, data) ==
    [cmd |-> c, with_session |-> TRUE, raw |-> raw, id |-> id, data |-> data,
     kind |-> kind, path |-> <<>>]

\* the same for an org-collection
CmdOn(c, raw, id, data) == CmdOf("org-collection", c, raw, id, data)

Cmd(c, raw) == CmdOn(c, raw, "", PyNone)

NoCmd == Cmd("none", FALSE)

\* a method returns v to its caller
Return(v) ==
    /\ pc' = Head(stack)
    /\ stack' = Tail(stack)
    /\ rv' = v

\* self.run(c): control moves to line 161 and comes back at `back`
CallRun(c, back) ==
    /\ args' = c
    /\ pc' = "run_161"
    /\ stack' = back \o stack

\* the command executed last
Last == issued[Len(issued)]

\* the record of one command or request: what was asked, the BW_SESSION it ran
\* with, the token then held, the outcome and the value handed to the caller;
\* for a request also its path and, of a success envelope, result["data"] and
\* result["data"]["object"]
Issue(a, e, o, res) ==
    [cmd |-> a.cmd, raw |-> a.raw, id |-> a.id, data |-> a.data, env |-> e,
     held |-> session, exit |-> o.exit, out |-> o.out, res |-> res,
     path |-> a.path, object |-> "none", body |-> <<>>]

run_161 ==
    /\ pc = "run_161"
    /\ env' = IF run_sets_env(args.with_session, session) THEN session ELSE env
    /\ pc' = "run_166"
    /\ UNCHANGED <<inheritVars, session, use_rest, rest_is_running, stack, args, rv, op,
                   server_url, pre, issued, threads, sidecars, hooks>>

\* command_runner: the command runs with the environment of this moment
run_166 ==
    /\ pc = "run_166"
    /\ \E o \in Outcomes(args) :
          /\ issued' = Append(issued,
                 Issue(args, env, o, run_result(o.exit, o.out, args.raw)))
          /\ vault' = Stored(args, o)
    /\ pc' = "run_169"
    /\ UNCHANGED <<inheritRest, session, use_rest, rest_is_running, env, stack, args, rv, op,
                   server_url, pre, threads, sidecars, hooks>>

run_169 ==
    /\ pc = "run_169"
    /\ env' = IF run_pops_env(session) THEN PyNone ELSE env
    /\ pc' = "run_173"
    /\ UNCHANGED <<inheritVars, session, use_rest, rest_is_running, stack, args, rv, op,
                   server_url, pre, issued, threads, sidecars, hooks>>

run_173 ==
    /\ pc = "run_173"
    /\ Return(Last.res)
    /\ UNCHANGED <<inheritVars, session, use_rest, rest_is_running, env, args, op,
                   server_url, pre, issued, threads, sidecars, hooks>>

----------------------------------------------------------------------------
(* BWCli.status                                                            *)

\* line 198: status = self.run(["status"])
CallStatus(back) == CallRun(Cmd("status", FALSE), <<"status_199">> \o back)

\* lines 199-209
status_value(st) ==
    IF Truthy(st)
    THEN CASE ~HasStatus(st.v)               -> PyRaise("KeyError")
           [] st.v = <<"{status:locked}">>   -> PyFalse
           [] st.v = <<"{status:unlocked}">> -> PyTrue
           [] OTHER                          -> PyNone
    ELSE PyNone

\* an exception leaves every method in progress and reaches the caller of the
\* client
Raise(e) ==
    /\ pc' = "idle"
    /\ stack' = <<>>
    /\ rv' = e

\* not the code, a faulty variant: a status that is not known drops the token
status_199_forgets ==
    /\ pc = "status_199"
    /\ Return(status_value(rv))
    /\ session' = IF status_value(rv) = PyNone THEN PyNone ELSE session
    /\ UNCHANGED <<inheritVars, use_rest, rest_is_running, env, args, op,
                   server_url, pre, issued, threads, sidecars, hooks>>

status_199 ==
    /\ pc = "status_199"
    /\ IF status_value(rv).t = "raise"
       THEN Raise(status_value(rv))
       ELSE Return(status_value(rv))
    /\ UNCHANGED <<inheritVars, session, use_rest, rest_is_running, env, args, op,
                   server_url, pre, issued, threads, sidecars, hooks>>

----------------------------------------------------------------------------
(* BWCli.logout, BWCli.unlock                                              *)

\* line 233: result = self.run(["logout"], raw=True)
CallLogout(back) == CallRun(Cmd("logout", TRUE), <<"logout_234">> \o back)

\* line 234: the logout is taken to have succeeded
logout_ok(res) == Truthy(res)

logout_234 ==
    /\ pc = "logout_234"
    /\ IF logout_ok(rv)
       THEN session' = PyNone /\ Return(PyTrue)
       ELSE session' = session /\ Return(PyFalse)
    /\ UNCHANGED <<inheritVars, use_rest, rest_is_running, env, args, op,
                   server_url, pre, issued, threads, sidecars, hooks>>

\* line 249: result = self.run(["unlock", "--raw", self._password], raw=True)
CallUnlock(back) == CallRun(Cmd("unlock", TRUE), <<"unlock_250">> \o back)

\* lines 251, 289, 318: the token kept from a command's output
session_from(res) == Strip(res)

unlock_250 ==
    /\ pc = "unlock_250"
    /\ IF Truthy(rv)
       THEN session' = session_from(rv) /\ Return(PyTrue)
       ELSE session' = session /\ Return(PyFalse)
    /\ UNCHANGED <<inheritVars, use_rest, rest_is_running, env, args, op,
                   server_url, pre, issued, threads, sidecars, hooks>>

----------------------------------------------------------------------------
(* BWCli.config                                                            *)

\* line 219: self.status()
CallConfig(back) == CallStatus(<<"config_219">> \o back)

\* line 219: self.status() in [False, True]
config_must_logout(st) == st \in {PyFalse, PyTrue}

\* lines 221-225: the command; its result is config's result
config_cmd(url) == IF Truthy(url) THEN Cmd("config_set", TRUE)
                                  ELSE Cmd("config_get", FALSE)

\* lines 219-220: status() has returned
config_219 ==
    /\ pc = "config_219"
    /\ IF config_must_logout(rv)
       THEN CallLogout(<<"config_221">>)
       ELSE CallRun(config_cmd(server_url), <<>>)
    /\ UNCHANGED <<inheritVars, session, use_rest, rest_is_running, env, rv, op,
                   server_url, pre, issued, threads, sidecars, hooks>>

\* lines 221-225: logout() has returned, whatever it returned
config_221 ==
    /\ pc = "config_221"
    /\ CallRun(config_cmd(server_url), <<>>)
    /\ UNCHANGED <<inheritVars, session, use_rest, rest_is_running, env, rv, op,
                   server_url, pre, issued, threads, sidecars, hooks>>

----------------------------------------------------------------------------
(* BWCli.run_server, decorated @threaded: a call starts a thread that runs *)
(* the body and hands the caller a Future at once.                         *)

ThreadLines == {"run_server_77", "run_server_82", "run_server_88",
                "run_server_101", "run_server_102", "run_server_106"}

RECURSIVE Sum(_, _)
Sum(f, S) == IF S = {} THEN 0
             ELSE LET x == CHOOSE y \in S : TRUE IN f[x] + Sum(f, S \ {x})

\* threads that have started and not finished
Running == Sum(threads, ThreadLines)

\* not the code, a faulty variant: the call gives what the body returns, False
\* when REST is not enabled
run_server_call_body == IF use_rest THEN PyTrue ELSE PyFalse

\* the value a call of run_server() evaluates to in the caller
run_server_call == PyFuture

\* self.run_server(): a new thread stands at the first line of the body
StartThread ==
    threads' = [threads EXCEPT !["run_server_77"] = @ + 1]

\* one thread goes from line a to line b ("done": it has finished); the
\* threads are daemon threads, they end with the process
Step(a, b) ==
    /\ pc # "exited"
    /\ threads[a] > 0
    /\ threads' = [l \in ThreadLines |->
                     IF l = a THEN threads[l] - 1
                     ELSE IF l = b THEN threads[l] + 1
                     ELSE threads[l]]

\* lines 267-270, 277-280, 291-294
ReturnAfterServer ==
    /\ StartThread
    /\ IF ~Truthy(run_server_call) THEN Return(PyFalse) ELSE Return(PyTrue)

\* lines 77-81
run_server_77 ==
    /\ Step("run_server_77", "run_server_82")
    /\ env' = IF Truthy(session) THEN session ELSE env
    /\ UNCHANGED <<inheritVars, session, use_rest, rest_is_running, pc, stack, args, rv, op,
                   server_url, pre, issued, sidecars, hooks>>

\* lines 82-87
run_server_82 ==
    /\ Step("run_server_82", IF ~use_rest THEN "done"
                             ELSE IF rest_is_running THEN "done"
                             ELSE "run_server_88")
    /\ UNCHANGED <<inheritVars, session, use_rest, rest_is_running, env, pc, stack, args, rv, op,
                   server_url, pre, issued, sidecars, hooks>>

\* lines 88-97: subprocess.Popen, the child inherits the environment
run_server_88 ==
    /\ Step("run_server_88", "run_server_101")
    /\ sidecars' = sidecars + 1
    /\ UNCHANGED <<inheritVars, session, use_rest, rest_is_running, env, pc, stack, args, rv, op,
                   server_url, pre, issued, hooks>>

run_server_101 ==
    /\ Step("run_server_101", "run_server_102")
    /\ rest_is_running' = TRUE
    /\ UNCHANGED <<inheritVars, session, use_rest, env, pc, stack, args, rv, op,
                   server_url, pre, issued, sidecars, hooks>>

run_server_102 ==
    /\ Step("run_server_102", "run_server_106")
    /\ env' = IF Truthy(session) THEN PyNone ELSE env
    /\ UNCHANGED <<inheritVars, session, use_rest, rest_is_running, pc, stack, args, rv, op,
                   server_url, pre, issued, sidecars, hooks>>

\* line 106: atexit.register(kill_childs, process.pid, itself=True)
run_server_106 ==
    /\ Step("run_server_106", "done")
    /\ hooks' = hooks + 1
    /\ UNCHANGED <<inheritVars, session, use_rest, rest_is_running, env, pc, stack, args, rv, op,
                   server_url, pre, issued, sidecars>>

----------------------------------------------------------------------------
(* BWCli.login_as_user                                                     *)

\* line 264: status = self.status()
CallLoginAsUser(back) == CallStatus(<<"login_as_user_265">> \o back)

\* line 287: result = self.run(["login", "--raw", username, password], raw=True)
CallLogin == CallRun(Cmd("login", TRUE), <<"login_as_user_288">>)

\* not the code, a faulty variant: an unlocked vault is logged in to again
login_as_user_265_relogin ==
    /\ pc = "login_as_user_265"
    /\ IF rv = PyFalse
       THEN CallUnlock(<<"login_as_user_276">>) /\ session' = session
       ELSE CallLogin /\ session' = PyNone
    /\ UNCHANGED <<inheritVars, use_rest, rest_is_running, env, rv, op,
                   server_url, pre, issued, threads, sidecars, hooks>>

\* lines 265-287: status() has returned
login_as_user_265 ==
    /\ pc = "login_as_user_265"
    /\ CASE rv = PyTrue ->
              /\ ReturnAfterServer
              /\ UNCHANGED <<session, args>>
         [] rv = PyNone ->
              /\ session' = PyNone
              /\ CallLogin
              /\ UNCHANGED <<rv, threads>>
         [] rv = PyFalse ->
              /\ CallUnlock(<<"login_as_user_276">>)
              /\ UNCHANGED <<session, rv, threads>>
    /\ UNCHANGED <<inheritVars, use_rest, rest_is_running, env, op,
                   server_url, pre, issued, sidecars, hooks>>

\* not the code, a faulty variant: the login command follows the unlock whatever unlock() returned
login_as_user_276_relogin ==
    /\ pc = "login_as_user_276"
    /\ CallLogin
    /\ UNCHANGED <<inheritVars, session, use_rest, rest_is_running, env, rv, op,
                   server_url, pre, issued, threads, sidecars, hooks>>

\* lines 276-287: unlock() has returned
login_as_user_276 ==
    /\ pc = "login_as_user_276"
    /\ IF Truthy(rv)
       THEN ReturnAfterServer /\ args' = args
       ELSE CallLogin /\ UNCHANGED <<rv, threads>>
    /\ UNCHANGED <<inheritVars, session, use_rest, rest_is_running, env, op,
                   server_url, pre, issued, sidecars, hooks>>

\* lines 288-297: the login command has returned
login_as_user_288 ==
    /\ pc = "login_as_user_288"
    /\ IF Truthy(rv)
       THEN session' = session_from(rv) /\ ReturnAfterServer
       ELSE session' = session /\ Return(PyFalse) /\ threads' = threads
    /\ UNCHANGED <<inheritVars, use_rest, rest_is_running, env, args, op,
                   server_url, pre, issued, sidecars, hooks>>

----------------------------------------------------------------------------
(* What the session operations write to the log.  A message is the sequence *)
(* of its characters; a fixed text counts as one character.                 *)

\* the password handed to __init__, line 60
Password == <<"p", "w">>

\* the commands run executes, as against the requests of run_as_rest and the
\* command of encode
RunCommands == {"status", "config_get", "config_set", "logout", "unlock", "login",
                "login_apikey", "list", "get", "edit"}

\* lines 173-187: what run logs about the command r: nothing when it returns
\* a value, the output of the command otherwise
run_log(r) ==
    IF r.cmd \notin RunCommands \/ (r.exit = 0 /\ (r.raw \/ IsJson(r.out)))
    THEN {}
    ELSE {IF r.exit = 0
          THEN <<"Failed to decode JSON output from Bitwarden CLI command. Output was:.">>
          ELSE <<"Bitwarden CLI command failed with exit code. Output was:">>,
          r.out}

\* line 290: logger.info(f"Logged in successfully. Session key: {self._session}")
login_as_user_290_log(token) == <<"Logged in successfully. Session key: ">> \o token.v

\* lines 287-290: login_as_user logs the new token once the login command has
\* given a result
login_as_user_log ==
    IF op = "login_as_user" /\ pc \notin {"run_161", "run_166", "run_169", "run_173"}
          /\ issued # <<>> /\ Last.cmd = "login" /\ Truthy(Last.res)
    THEN {login_as_user_290_log(session_from(Last.res))}
    ELSE {}

\* every message logged since the method in progress was called
Log == login_as_user_log \cup UNION {run_log(issued[i]) : i \in DOMAIN issued}

----------------------------------------------------------------------------
(* BWCli.login_as_api                                                      *)

\* line 308: self.status()
CallLoginAsApi(back) == CallStatus(<<"login_as_api_308">> \o back)

\* lines 308-316: status() has returned
login_as_api_308 ==
    /\ pc = "login_as_api_308"
    /\ IF Truthy(rv)
       THEN Return(PyTrue) /\ args' = args
       ELSE CallRun(Cmd("login_apikey", TRUE), <<"login_as_api_317">>) /\ rv' = rv
    /\ UNCHANGED <<inheritVars, session, use_rest, rest_is_running, env, op,
                   server_url, pre, issued, threads, sidecars, hooks>>

\* lines 317-325
login_as_api_317 ==
    /\ pc = "login_as_api_317"
    /\ IF Truthy(rv)
       THEN session' = session_from(rv) /\ Return(PyTrue)
       ELSE session' = session /\ Return(PyFalse)
    /\ UNCHANGED <<inheritVars, use_rest, rest_is_running, env, args, op,
                   server_url, pre, issued, threads, sidecars, hooks>>

----------------------------------------------------------------------------
(* BWCli.run_as_rest, BWCli.encode, BWCli.get, BWCli.edit,                 *)
(* BWCli.org_collection                                                    *)

MaxTargets == 2

sessionRest == <<session, use_rest, rest_is_running, env, op, server_url, pre,
                 threads, sidecars, hooks, guiVars>>

\* lines 125-141: the kinds of object run_as_rest hands back
RestKinds == {"item", "username", "password", "uri", "totp", "notes", "exposed",
              "attachment", "folder", "collection", "org-collection",
              "organization", "template", "fingerprint", "send"}

\* what the sidecar answers: nothing, a failure envelope, or a success envelope
Response(got, success, object, data) ==
    [got |-> got, success |-> success, object |-> object, data |-> data]

\* lines 112-115
rest_action(data) == IF Truthy(data) THEN "update" ELSE "read"

\* {'object': 'list', 'data': [...]}, line 119
ListObject(l) == <<"{", "object", "list", "data">> \o l \o <<"}">>

\* result["data"]["data"], line 124
DataOf(d) == SubSeq(d, IndexOf(d, "data") + 1, Len(d) - 1)

Responses(a) ==
    {Response(FALSE, FALSE, "none", <<>>), Response(TRUE, FALSE, "none", <<>>)} \cup
    IF rest_action(a.data) = "update"
    THEN {Response(TRUE, TRUE, "org-collection", a.data.v)}
    ELSE IF a.cmd = "list"
    THEN {Response(TRUE, TRUE, "list", ListObject(l)) : l \in ListOutputs}
    ELSE {Response(TRUE, TRUE, a.kind, vault[a.id]),
          Response(TRUE, TRUE, a.kind, Nameless(a.id)),
          Response(TRUE, TRUE, "message", <<"{", "}">>)}

\* not the code, a faulty variant: an organization is not among the kinds handed back
run_as_rest_result_no_organization(r) ==
    IF r.got /\ r.success
    THEN IF r.object = "list" THEN Json(DataOf(r.data))
         ELSE IF r.object \in RestKinds \ {"organization"} THEN Json(r.data)
         ELSE PyNone
    ELSE PyNone

\* not the code, a faulty variant: a list is handed back as the object it came in
run_as_rest_result_list_object(r) ==
    IF r.got /\ r.success
    THEN IF r.object \in RestKinds \cup {"list"} THEN Json(r.data) ELSE PyNone
    ELSE PyNone

\* lines 121-150
run_as_rest_result(r) ==
    IF r.got
    THEN IF r.success
         THEN IF r.object = "list" THEN Json(DataOf(r.data))
              ELSE IF r.object \in RestKinds THEN Json(r.data)
              ELSE PyNone
         ELSE PyNone
    ELSE PyNone

\* lines 108-150: one request to the sidecar
run_as_rest_109 ==
    /\ pc = "run_as_rest_109"
    /\ \E r \in Responses(args) :
          LET a == [args EXCEPT !.cmd = rest_action(args.data)]
              o == Outcome(IF r.got /\ r.success THEN 0 ELSE 1,
                           IF r.object = "list" THEN DataOf(r.data) ELSE r.data)
          IN  /\ issued' = Append(issued,
                     [Issue(a, env, o, run_as_rest_result(r))
                         EXCEPT !.object = r.object, !.body = r.data])
              /\ vault' = Stored(a, o)
              /\ Return(run_as_rest_result(r))
    /\ UNCHANGED <<sessionRest, inheritRest, args>>

\* line 389: json.dumps(data, separators=(",", ":"))
json_dumps(data) == Str(data.v)

\* json.loads of a string
json_loads(str) == Json(str.v)

\* lines 393-394: echo <data> | bw encode
EncodeOutcomes(data) ==
    {Outcome(0, B64(json_dumps(data).v) \o <<"\n">>), Outcome(1, <<"e">>)}

\* lines 395-396: the value encode returns
encode_result(o) == IF o.exit = 0 THEN Strip(Str(o.out)) ELSE PyNone

\* self.list(...), lines 337-358
CallList(back) ==
    /\ args' = CmdOn("list", FALSE, "", PyNone)
    /\ stack' = back \o stack
    /\ pc' = IF use_rest THEN "run_as_rest_109" ELSE "run_161"

\* self.get("org-collection", ...), lines 366-378
CallGet(id, back) ==
    /\ args' = CmdOn("get", FALSE, id, PyNone)
    /\ stack' = back \o stack
    /\ pc' = IF use_rest THEN "run_as_rest_109" ELSE "run_161"

\* not the code, a faulty variant: process mode hands the payload to the edit command as it is
CallEdit_unencoded(id, data, back) ==
    /\ args' = CmdOn("edit", FALSE, id, data)
    /\ stack' = back \o stack
    /\ pc' = IF use_rest THEN "run_as_rest_109" ELSE "run_161"

\* self.edit("org-collection", ...), lines 405-417
CallEdit(id, data, back) ==
    /\ args' = CmdOn("edit", FALSE, id, data)
    /\ stack' = back \o stack
    /\ pc' = IF use_rest THEN "run_as_rest_109" ELSE "encode_388"

\* lines 480-489
CallOrgCollection(id, data, back) ==
    IF Truthy(data) THEN CallEdit(id, data, back) ELSE CallGet(id, back)

\* lines 388-396 and 417-422: the payload is encoded, then the edit command runs
encode_388 ==
    /\ pc = "encode_388"
    /\ \E o \in EncodeOutcomes(args.data) :
          /\ issued' = Append(issued,
                 Issue(CmdOn("encode", TRUE, args.id, args.data), env, o,
                       encode_result(o)))
          /\ args' = [args EXCEPT !.data = encode_result(o)]
    /\ pc' = "run_161"
    /\ UNCHANGED <<sessionRest, inheritVars, stack, rv>>

----------------------------------------------------------------------------
(* The caller of the client: one method at a time from the main thread.    *)

Methods == {"status", "config", "logout", "unlock", "login_as_user", "login_as_api",
            "list", "get", "edit"}

ServerUrls == {PyNone, Str(<<"u">>)}

\* the main thread enters method m; the locals of the previous call are gone
CallMethod ==
    /\ pc = "idle"
    /\ stack = <<>>
    /\ \E m \in Methods :
          /\ m = "login_as_user" => Running < MaxThreads
          /\ op' = m
          /\ server_url' \in (IF m = "config" THEN ServerUrls ELSE {PyNone})
          /\ CASE m = "status"        -> CallStatus(<<"idle">>)
               [] m = "config"        -> CallConfig(<<"idle">>)
               [] m = "logout"        -> CallLogout(<<"idle">>)
               [] m = "unlock"        -> CallUnlock(<<"idle">>)
               [] m = "login_as_user" -> CallLoginAsUser(<<"idle">>)
               [] m = "login_as_api"  -> CallLoginAsApi(<<"idle">>)
               [] m = "list"          -> CallList(<<"idle">>)
               [] m = "get"           -> \E id \in Ids : CallGet(id, <<"idle">>)
               [] m = "edit"          -> \E id \in Ids :
                                            CallEdit(id, Json(vault[id]), <<"idle">>)
    /\ pre' = [session |-> session, rest_is_running |-> rest_is_running]
    /\ issued' = <<>>
    /\ rv' = PyNone
    /\ UNCHANGED <<inheritVars, session, use_rest, rest_is_running, env, threads, sidecars, hooks>>

\* the process exits (the window is closed): the atexit hooks run, each kills
\* the "bw serve" process it was registered for, and the threads end
process_exit ==
    /\ pc = "idle"
    /\ pc' = "exited"
    /\ UNCHANGED <<inheritVars, session, use_rest, rest_is_running, env, stack, args, rv,
                   op, server_url, pre, issued, threads, sidecars, hooks>>

\* the "bw serve" processes alive once the process has exited
Survivors == sidecars - hooks

\* a Future that is not done
Pending == [done |-> FALSE, result |-> PyNone]

\* no id: None
NoId == ""

NoLaunch == [org |-> NoId, ids |-> <<>>, source |-> NoId]

\* inheritor_gui, lines 131-134 and 171-174: the locals of a window just opened
NoSelection ==
    /\ organization_id = NoId
    /\ objects = <<>>
    /\ collection_name = <<>>
    /\ child_collection_ids = <<>>
    /\ collection_conf = PyNone

\* the defaults of the arguments of list (line 327), get (360-362), edit
\* (398-404) and org_collection (469-471)
NoKwargs == [objects |-> "items", search |-> PyNone, organization_id |-> PyNone,
             folder_id |-> PyNone, object_id |-> NoId, data |-> PyNone]

\* no configuration is being saved and no method has been called with arguments
NoConfig ==
    /\ full_config = <<>>
    /\ config_file = <<>>
    /\ kwargs = NoKwargs

\* no window has been opened
NoGui ==
    /\ NoConfig
    /\ gui = "none"
    /\ cont = "none"
    /\ future = Pending
    /\ workers = <<>>
    /\ cli = 0
    /\ NoSelection
    /\ launched = NoLaunch

\* no inheritance window has been opened
NoRun ==
    /\ pos = 0
    /\ index = 0
    /\ collection = PyNone
    /\ has_failures = FALSE
    /\ output = <<>>
    /\ progress = 0
    /\ popup = "none"
    /\ NoGui

\* Path(bw_executable).is_file(), line 53: the executables a caller may name
Executables == {"bw", "missing"}

is_file(bw_executable) == bw_executable = "bw"

\* BWCli.__init__, lines 33-67: without the executable it raises at line 55,
\* before any attribute of the instance is set, and no instance exists
Init ==
    /\ \E bw_executable \in Executables :
        IF is_file(bw_executable)
        THEN /\ session \in {PyNone, Str(<<"s">>)}
             /\ use_rest \in BOOLEAN
             /\ pc = "idle"
             /\ rv = PyNone
        ELSE /\ session = PyNone
             /\ use_rest = FALSE
             /\ pc = "no_client"
             /\ rv = PyRaise("FileNotFoundError")
    /\ rest_is_running = FALSE
    /\ env = PyNone
    /\ stack = <<>>
    /\ args = NoCmd
    /\ op = "none"
    /\ server_url = PyNone
    /\ pre = [session |-> session, rest_is_running |-> FALSE]
    /\ issued = <<>>
    /\ threads = [l \in ThreadLines |-> 0]
    /\ sidecars = 0
    /\ hooks = 0
    /\ vault = [c \in Ids |-> Doc(c, NameOf(c), <<"u0">>, <<"g0">>)]
    /\ collection_ids = <<>>
    /\ user_permissions = <<>>
    /\ group_permissions = <<>>
    /\ NoRun

Next ==
    \/ CallMethod
    \/ run_161 \/ run_166 \/ run_169 \/ run_173
    \/ status_199
    \/ logout_234
    \/ unlock_250
    \/ config_219 \/ config_221
    \/ login_as_user_265 \/ login_as_user_276 \/ login_as_user_288
    \/ login_as_api_308 \/ login_as_api_317
    \/ run_server_77 \/ run_server_82 \/ run_server_88
    \/ run_server_101 \/ run_server_102 \/ run_server_106
    \/ run_as_rest_109
    \/ encode_388
    \/ process_exit

Spec == Init /\ [][Next]_vars

----------------------------------------------------------------------------
(* inherit_permissions: the window of one inheritance run.                 *)

Target == collection_ids[index + 1]

Line(kind, id) == [kind |-> kind, id |-> id]

\* not the code, a faulty variant: the supplied lists are added to the fetched ones
with_permissions_merged(c, users, groups) ==
    Json(Doc(DocId(c.v), DocName(c.v), Users(c.v) \o users, Groups(c.v) \o groups))

\* not the code, a faulty variant: the lists are written even when none is supplied
with_permissions_unguarded(c, users, groups) ==
    Json(Doc(DocId(c.v), DocName(c.v), users, groups))

\* lines 82-85
with_permissions(c, users, groups) ==
    Json(Doc(DocId(c.v), DocName(c.v),
             IF users # <<>> THEN users ELSE Users(c.v),
             IF groups # <<>> THEN groups ELSE Groups(c.v)))

\* lines 63-66: the "Execute action" button
inherit_63 ==
    /\ pc = "window_59"
    /\ output' = <<>>
    /\ has_failures' = FALSE
    /\ pos' = 0
    /\ popup' = "none"
    /\ issued' = <<>>
    /\ args' = NoCmd
    /\ rv' = PyNone
    /\ pc' = "inherit_67"
    /\ UNCHANGED <<sessionRest, stack, vault, collection_ids,
                   user_permissions, group_permissions, index, collection, progress>>

\* lines 60-61: the window is closed
inherit_60 ==
    /\ pc = "window_59"
    /\ pc' = "closed"
    /\ UNCHANGED <<sessionRest, stack, args, rv, issued, inheritVars>>

\* lines 67-72: the for loop takes the next target and fetches it
inherit_67 ==
    /\ pc = "inherit_67"
    /\ IF pos < Len(collection_ids)
       THEN /\ index' = pos
            /\ CallOrgCollection(collection_ids[pos + 1], PyNone, <<"inherit_73">>)
       ELSE /\ pc' = "inherit_113"
            /\ UNCHANGED <<index, args, stack>>
    /\ UNCHANGED <<sessionRest, rv, issued, vault, collection_ids, user_permissions,
                   group_permissions, pos, collection, has_failures, output,
                   progress, popup>>

\* not the code, a faulty variant: a target that is not found ends the loop
inherit_73_break ==
    /\ pc = "inherit_73"
    /\ IF ~Truthy(rv) \/ ~HasKey(rv.v, "name")
       THEN /\ collection' = rv
            /\ output' = Append(output, Line("not found", Target))
            /\ pos' = pos + 1
            /\ pc' = "inherit_113"
            /\ UNCHANGED <<args, stack, progress>>
       ELSE /\ collection' = with_permissions(rv, user_permissions, group_permissions)
            /\ CallOrgCollection(Target, collection', <<"inherit_87">>)
            /\ UNCHANGED <<output, progress, pos>>
    /\ UNCHANGED <<sessionRest, rv, issued, vault, collection_ids, user_permissions,
                   group_permissions, index, has_failures, popup>>

\* not the code, a faulty variant: the error of a target leaves the run
inherit_73_uncaught ==
    /\ pc = "inherit_73"
    /\ IF ~Truthy(rv)
       THEN /\ collection' = rv
            /\ output' = Append(output, Line("not found", Target))
            /\ pos' = pos + 1
            /\ pc' = "inherit_67"
            /\ UNCHANGED <<args, stack, progress>>
       ELSE IF ~HasKey(rv.v, "name")
       THEN /\ collection' = rv
            /\ pc' = "raised"
            /\ UNCHANGED <<args, stack, output, progress, pos>>
       ELSE /\ collection' = with_permissions(rv, user_permissions, group_permissions)
            /\ CallOrgCollection(Target, collection', <<"inherit_87">>)
            /\ UNCHANGED <<output, progress, pos>>
    /\ UNCHANGED <<sessionRest, rv, issued, vault, collection_ids, user_permissions,
                   group_permissions, index, has_failures, popup>>

\* not the code, a faulty variant: an object without a name is sent back as an update
inherit_73_updates_nameless ==
    /\ pc = "inherit_73"
    /\ IF ~Truthy(rv)
       THEN /\ collection' = rv
            /\ output' = Append(output, Line("not found", Target))
            /\ pos' = pos + 1
            /\ pc' = "inherit_67"
            /\ UNCHANGED <<args, stack, progress>>
       ELSE /\ collection' = rv
            /\ CallOrgCollection(Target, rv, <<"inherit_87">>)
            /\ UNCHANGED <<output, progress, pos>>
    /\ UNCHANGED <<sessionRest, rv, issued, vault, collection_ids, user_permissions,
                   group_permissions, index, has_failures, popup>>

\* lines 73-91 and 105-112: the fetch has returned
inherit_73 ==
    /\ pc = "inherit_73"
    /\ IF ~Truthy(rv)
       THEN \* lines 73-77: not found, continue
            /\ collection' = rv
            /\ output' = Append(output, Line("not found", Target))
            /\ pos' = pos + 1
            /\ pc' = "inherit_67"
            /\ UNCHANGED <<args, stack, progress>>
       ELSE IF ~HasKey(rv.v, "name")
       THEN \* line 79 raises, lines 105-112
            /\ collection' = rv
            /\ output' = Append(output, Line("error", Target))
            /\ progress' = index + 1
            /\ pos' = pos + 1
            /\ pc' = "inherit_67"
            /\ UNCHANGED <<args, stack>>
       ELSE \* lines 78-91
            /\ collection' = with_permissions(rv, user_permissions, group_permissions)
            /\ CallOrgCollection(Target, collection', <<"inherit_87">>)
            /\ UNCHANGED <<output, progress, pos>>
    /\ UNCHANGED <<sessionRest, rv, issued, vault, collection_ids, user_permissions,
                   group_permissions, index, has_failures, popup>>

\* not the code, a faulty variant: a failed update ends the loop
inherit_87_break ==
    /\ pc = "inherit_87"
    /\ IF ~Truthy(rv)
       THEN /\ output' = Append(output, Line("failed", Target))
            /\ has_failures' = TRUE
            /\ pc' = "inherit_113"
            /\ UNCHANGED progress
       ELSE /\ output' = Append(output, Line("updated", Target))
            /\ progress' = index + 1
            /\ pc' = "inherit_67"
            /\ UNCHANGED has_failures
    /\ pos' = pos + 1
    /\ UNCHANGED <<sessionRest, stack, args, rv, issued, vault, collection_ids,
                   user_permissions, group_permissions, index, collection, popup>>

\* lines 87-104 and 109-112: the update has returned
inherit_87 ==
    /\ pc = "inherit_87"
    /\ IF ~Truthy(rv)
       THEN /\ output' = Append(output, Line("failed", Target))
            /\ has_failures' = TRUE
            /\ UNCHANGED progress
       ELSE /\ output' = Append(output, Line("updated", Target))
            /\ progress' = index + 1
            /\ UNCHANGED has_failures
    /\ pos' = pos + 1
    /\ pc' = "inherit_67"
    /\ UNCHANGED <<sessionRest, stack, args, rv, issued, vault, collection_ids,
                   user_permissions, group_permissions, index, collection, popup>>

\* lines 113-121: the run has ended
inherit_113 ==
    /\ pc = "inherit_113"
    /\ popup' = IF index >= Len(collection_ids) - 1
                THEN IF has_failures THEN "some failed" ELSE "all updated"
                ELSE popup
    /\ pc' = "window_59"
    /\ UNCHANGED <<sessionRest, stack, args, rv, issued, vault, collection_ids,
                   user_permissions, group_permissions, pos, index, collection,
                   has_failures, output, progress>>

RECURSIVE SeqsUpTo(_, _)
SeqsUpTo(S, n) ==
    IF n = 0 THEN {<<>>}
    ELSE LET shorter == SeqsUpTo(S, n - 1)
         IN  shorter \cup {Append(q, x) : q \in shorter, x \in S}

\* a logged-in client, and the window of lines 45-57 for some targets and permissions
InitInherit ==
    /\ session = Str(<<"s">>)
    /\ use_rest \in BOOLEAN
    /\ rest_is_running = use_rest
    /\ env = PyNone
    /\ pc = "window_59"
    /\ stack = <<>>
    /\ args = NoCmd
    /\ rv = PyNone
    /\ op = "inherit_permissions"
    /\ server_url = PyNone
    /\ pre = [session |-> session, rest_is_running |-> rest_is_running]
    /\ issued = <<>>
    /\ threads = [l \in ThreadLines |-> 0]
    /\ sidecars = IF use_rest THEN 1 ELSE 0
    /\ hooks = sidecars
    /\ vault = [c \in Ids |-> Doc(c, NameOf(c), <<"u0">>, <<"g0">>)]
    /\ collection_ids \in SeqsUpTo(Ids, MaxTargets)
    /\ user_permissions \in {<<>>, <<"u1">>}
    /\ group_permissions \in {<<>>, <<"g1">>}
    /\ NoRun

NextInherit ==
    \/ inherit_63 \/ inherit_60 \/ inherit_67 \/ inherit_73 \/ inherit_87
    \/ inherit_113
    \/ run_161 \/ run_166 \/ run_169 \/ run_173
    \/ run_as_rest_109
    \/ encode_388

SpecInherit == InitInherit /\ [][NextInherit]_vars

----------------------------------------------------------------------------
(* A caller that lists the organizations and gets one of them by its id.   *)

\* an organization as the vault prints it
OrgDoc(o, n) == <<"{", "object", "organization", "id", o, "name", n, "}">>

OrgNames == {"SOME ORG", "OTHER ORG"}

\* the elements of a list
Elements(l) == {l[i] : i \in 2..(Len(l) - 1)}

\* self.list(objects="organizations"), lines 337-358
roundtrip_list ==
    /\ pc = "roundtrip_list"
    /\ args' = CmdOf("organizations", "list", FALSE, "", PyNone)
    /\ stack' = <<"roundtrip_get">> \o stack
    /\ pc' = IF use_rest THEN "run_as_rest_109" ELSE "run_161"
    /\ UNCHANGED <<sessionRest, inheritVars, rv, issued>>

\* self.get("organization", object_id=<an id of the list>), lines 366-378
roundtrip_get ==
    /\ pc = "roundtrip_get"
    /\ IF Truthy(rv)
       THEN \E id \in Elements(rv.v) :
               /\ args' = CmdOf("organization", "get", FALSE, id, PyNone)
               /\ stack' = <<"roundtrip_end">> \o stack
               /\ pc' = IF use_rest THEN "run_as_rest_109" ELSE "run_161"
       ELSE /\ pc' = "roundtrip_end"
            /\ UNCHANGED <<args, stack>>
    /\ UNCHANGED <<sessionRest, inheritVars, rv, issued>>

\* a client with or without a token, and a vault of organizations
InitRoundTrip ==
    /\ session \in {PyNone, Str(<<"s">>)}
    /\ use_rest \in BOOLEAN
    /\ rest_is_running = use_rest
    /\ env = PyNone
    /\ pc = "roundtrip_list"
    /\ stack = <<>>
    /\ args = NoCmd
    /\ rv = PyNone
    /\ op = "list"
    /\ server_url = PyNone
    /\ pre = [session |-> session, rest_is_running |-> rest_is_running]
    /\ issued = <<>>
    /\ threads = [l \in ThreadLines |-> 0]
    /\ sidecars = IF use_rest THEN 1 ELSE 0
    /\ hooks = sidecars
    /\ vault \in {[c \in Ids |-> OrgDoc(c, n)] : n \in OrgNames}
    /\ collection_ids = <<>>
    /\ user_permissions = <<>>
    /\ group_permissions = <<>>
    /\ NoRun

NextRoundTrip ==
    \/ roundtrip_list \/ roundtrip_get
    \/ run_161 \/ run_166 \/ run_169 \/ run_173
    \/ run_as_rest_109

SpecRoundTrip == InitRoundTrip /\ [][NextRoundTrip]_vars

----------------------------------------------------------------------------
(* list, get, edit and org_collection called with arguments (SpecRest).    *)

\* "&".join(query), lines 349 and 412
RECURSIVE Join(_, _)
Join(query, sep) ==
    IF query = <<>> THEN <<>>
    ELSE IF Len(query) = 1 THEN Head(query)
    ELSE Head(query) \o <<sep>> \o Join(Tail(query), sep)

\* lines 338-349: the path of a list request; "/" and "?" are single characters
list_path(objs, search, organization, folder) ==
    LET q1 == IF Truthy(organization)
              THEN << <<"organizationId=">> \o organization.v >> ELSE <<>>
        q2 == IF Truthy(search)
              THEN << <<"/", "?", "search=">> \o search.v >> ELSE <<>>
        q3 == IF Truthy(folder)
              THEN << <<"folderId=">> \o folder.v >> ELSE <<>>
        query == q1 \o q2 \o q3
    IN  <<"/list/object/", objs, "/", "?">> \o
        (IF query # <<>> THEN Join(query, "&") ELSE <<>>)

\* self.list(objects, search, organization_id, folder_id), lines 337-358
CallListOf(objs, search, organization, folder, back) ==
    /\ args' = [CmdOf(objs, "list", FALSE, "", PyNone) EXCEPT
                   !.path = IF use_rest
                            THEN list_path(objs, search, organization, folder)
                            ELSE <<>>]
    /\ stack' = back \o stack
    /\ pc' = IF use_rest THEN "run_as_rest_109" ELSE "run_161"

RestMethods == {"list", "get", "edit", "org_collection"}

\* the values a caller may give for search, organization_id and folder_id
Params == {PyNone, Str(<<"x">>)}

\* the payloads a caller may give: an empty object, or the stored object
Payloads(id) == {Json(<<"{", "}">>), Json(vault[id])}

\* the main thread calls one of the four methods with arguments
CallRest ==
    /\ pc = "idle"
    /\ stack = <<>>
    /\ \E m \in RestMethods :
          /\ op' = m
          /\ CASE m = "list" ->
                    \E search \in Params, organization \in Params, folder \in Params :
                       /\ kwargs' = [NoKwargs EXCEPT !.objects = "org-collections",
                                        !.search = search,
                                        !.organization_id = organization,
                                        !.folder_id = folder]
                       /\ CallListOf("org-collections", search, organization, folder,
                                     <<"idle">>)
               [] m = "get" ->
                    \E id \in Ids :
                       /\ kwargs' = [NoKwargs EXCEPT !.object_id = id]
                       /\ CallGet(id, <<"idle">>)
               [] m = "edit" ->
                    \E id \in Ids : \E data \in Payloads(id) :
                       /\ kwargs' = [NoKwargs EXCEPT !.object_id = id, !.data = data]
                       /\ CallEdit(id, data, <<"idle">>)
               [] m = "org_collection" ->
                    \E id \in Ids : \E data \in Payloads(id) \cup {PyNone} :
                       /\ kwargs' = [NoKwargs EXCEPT !.object_id = id, !.data = data]
                       /\ CallOrgCollection(id, data, <<"idle">>)
    /\ pre' = [session |-> session, rest_is_running |-> rest_is_running]
    /\ issued' = <<>>
    /\ rv' = PyNone
    /\ UNCHANGED <<session, use_rest, rest_is_running, env, server_url, threads,
                   sidecars, hooks, vault, collection_ids, user_permissions,
                   group_permissions, pos, index, collection, has_failures, output,
                   progress, popup, gui, cont, future, workers, cli, organization_id,
                   objects, collection_name, child_collection_ids, collection_conf,
                   launched, full_config, config_file>>

\* a client with or without a token, in either mode, and a vault of collections
InitRest ==
    /\ session \in {PyNone, Str(<<"s">>)}
    /\ use_rest \in BOOLEAN
    /\ rest_is_running = use_rest
    /\ env = PyNone
    /\ pc = "idle"
    /\ stack = <<>>
    /\ args = NoCmd
    /\ rv = PyNone
    /\ op = "none"
    /\ server_url = PyNone
    /\ pre = [session |-> session, rest_is_running |-> rest_is_running]
    /\ issued = <<>>
    /\ threads = [l \in ThreadLines |-> 0]
    /\ sidecars = IF use_rest THEN 1 ELSE 0
    /\ hooks = sidecars
    /\ vault = [c \in Ids |-> Doc(c, NameOf(c), <<"u0">>, <<"g0">>)]
    /\ collection_ids = <<>>
    /\ user_permissions = <<>>
    /\ group_permissions = <<>>
    /\ NoRun

NextRest ==
    \/ CallRest
    \/ run_161 \/ run_166 \/ run_169 \/ run_173
    \/ run_as_rest_109 \/ encode_388

SpecRest == InitRest /\ [][NextRest]_vars

----------------------------------------------------------------------------
(* The windows: main_gui, minimal_gui_thread_runner and inheritor_gui.     *)
(* What the client's methods do is the matter of Spec; here a method is a  *)
(* worker that ends with one of the values Spec shows it can end with.     *)

MaxClients == 2

\* the organizations of the vault, the org-collections of each in the order
\* "bw list org-collections" gives them, and their names
Orgs == {"o1", "o2"}

OrgCollections == [o \in Orgs |-> IF o = "o1" THEN <<"k1", "k2", "k3">>
                                              ELSE <<"k4", "k5">>]

Keys == {"k1", "k2", "k3", "k4", "k5"}

CollectionNames ==
    [k \in Keys |->
        CASE k = "k1" -> <<"P">>
          [] k = "k2" -> <<"P", "/", "a">>
          [] k = "k3" -> <<"P", "/", "a">>
          [] k = "k4" -> <<"Q">>
          [] k = "k5" -> <<"Q", "/", "b">>]

\* the organization a collection belongs to
OrgOf(k) == CHOOSE o \in Orgs : \E i \in DOMAIN OrgCollections[o] : OrgCollections[o][i] = k

\* a worker thread of minimal_gui_thread_runner
Worker(fn, c, org, id) == [fn |-> fn, cli |-> c, org |-> org, id |-> id]

\* BWCli.config, lines 219-225: the output of the command, None, or the
\* KeyError of status()
ConfigResults == {Str(<<"u">>), PyNone, PyRaise("KeyError")}

\* BWCli.login_as_user, lines 264-297
LoginResults == {PyTrue, PyFalse, PyRaise("KeyError")}

\* BWCli.organizations, lines 424-430: the list, or None
OrganizationsResults == {Json(<<"[", "o1", "o2", "]">>), PyNone}

\* BWCli.org_collections, lines 459-467: the list of the organization's
\* collections, or None
OrgCollectionsResults(org) == {Json(<<"[">> \o OrgCollections[org] \o <<"]">>), PyNone}

\* BWCli.org_collection, lines 469-489: the collection of that id in that
\* organization, or None
OrgCollectionResults(org, id) ==
    {PyNone} \cup
    IF id \in Keys /\ org \in Orgs /\ OrgOf(id) = org
    THEN {Json(Doc(id, "name", <<"u0">>, <<"g0">>))}
    ELSE {}

\* call_with_future, lines 47-52: the values fn may end with
Results(w) ==
    CASE w.fn = "config"          -> ConfigResults
      [] w.fn = "login_as_user"   -> LoginResults
      [] w.fn = "organizations"   -> OrganizationsResults
      [] w.fn = "org_collections" -> OrgCollectionsResults(w.org)
      [] w.fn = "org_collection"  -> OrgCollectionResults(w.org, w.id)

\* lines 54-57: the runner creates the Future and starts the worker thread;
\* the GUI thread enters the loop of line 59
RunnerStart(w, back) ==
    /\ future' = Pending
    /\ workers' = Append(workers, w)
    /\ gui' = "runner_59"
    /\ cont' = back

\* lines 47-52: a worker ends and sets the result, or the exception, of its
\* Future; the Future the runner waits for is the one of the worker started last
call_with_future ==
    /\ gui # "exited"
    /\ \E i \in DOMAIN workers : \E r \in Results(workers[i]) :
          /\ workers' = SubSeq(workers, 1, i - 1) \o SubSeq(workers, i + 1, Len(workers))
          /\ future' = IF i = Len(workers) THEN [done |-> TRUE, result |-> r]
                                           ELSE future
    /\ UNCHANGED <<sessionVars, vault, collection_ids, user_permissions,
                   group_permissions, pos, index, collection, has_failures, output,
                   progress, popup, gui, cont, cli, organization_id, objects,
                   collection_name, child_collection_ids, collection_conf, launched,
                   configVars>>

\* not the code, a faulty variant: the runner hands back the Future at once,
\* as a function decorated @threaded does
runner_threaded(f) == IF f.done THEN {f.result} ELSE {PyFuture}

\* lines 59-68: the loop ends when the Future is done, and future.result()
\* gives the worker's value or raises its exception
runner_68(f) == IF f.done THEN {f.result} ELSE {}

\* what the windows leave alone
guiRest == <<sessionVars, vault, collection_ids, user_permissions, group_permissions,
             pos, index, collection, has_failures, output, progress, configVars>>

\* __main__, lines 416-423: an exception leaves main_gui; popup and sys.exit(251)
Crash ==
    /\ gui' = "exited"
    /\ popup' = "Unknown error"
    /\ cont' = "none"

\* main_gui, lines 346-348: the window is closed
main_347 ==
    /\ gui = "main_346"
    /\ gui' = "exited"
    /\ UNCHANGED <<guiRest, popup, cont, future, workers, cli, organization_id, objects,
                   collection_name, child_collection_ids, collection_conf, launched>>

\* main_gui, lines 349-368 and 376-381: Login with every field filled in
main_349 ==
    /\ gui = "main_346"
    /\ cli < MaxClients
    /\ \E bw_executable \in Executables :
          IF is_file(bw_executable)
          THEN /\ cli' = cli + 1
               /\ RunnerStart(Worker("config", cli + 1, NoId, NoId), "main_369")
               /\ popup' = popup
          ELSE /\ popup' = "Bitwarden CLI executable not found"
               /\ UNCHANGED <<cli, future, workers, gui, cont>>
    /\ UNCHANGED <<guiRest, organization_id, objects, collection_name,
                   child_collection_ids, collection_conf, launched>>

\* main_gui, lines 369-382: config has given its result
main_369 ==
    /\ gui = "runner_59" /\ cont = "main_369"
    /\ \E result \in runner_68(future) :
          IF result.t = "raise"
          THEN Crash /\ UNCHANGED <<future, workers>>
          ELSE IF ~Truthy(result)
          THEN /\ popup' = "Failed to configure Bitwarden CLI"
               /\ gui' = "main_346"
               /\ cont' = "none"
               /\ UNCHANGED <<future, workers>>
          ELSE /\ RunnerStart(Worker("login_as_user", cli, NoId, NoId), "main_383")
               /\ popup' = popup
    /\ UNCHANGED <<guiRest, cli, organization_id, objects, collection_name,
                   child_collection_ids, collection_conf, launched>>

\* main_gui, lines 383-389, and inheritor_gui, lines 131-137: login_as_user
\* has given its result
main_383 ==
    /\ gui = "runner_59" /\ cont = "main_383"
    /\ \E result \in runner_68(future) :
          IF result.t = "raise"
          THEN Crash /\ UNCHANGED <<future, workers, organization_id, objects,
                                    collection_name, child_collection_ids,
                                    collection_conf>>
          ELSE IF Truthy(result)
          THEN /\ organization_id' = NoId
               /\ objects' = <<>>
               /\ collection_name' = <<>>
               /\ child_collection_ids' = <<>>
               /\ collection_conf' = PyNone
               /\ RunnerStart(Worker("organizations", cli, NoId, NoId), "inheritor_138")
               /\ popup' = popup
          ELSE /\ popup' = "Login failed"
               /\ gui' = "main_346"
               /\ cont' = "none"
               /\ UNCHANGED <<future, workers, organization_id, objects,
                              collection_name, child_collection_ids, collection_conf>>
    /\ UNCHANGED <<guiRest, cli, launched>>

\* inheritor_gui, lines 138-146: the organizations have been fetched; they are
\* fetched again, in the GUI thread, and iterated over
inheritor_138 ==
    /\ gui = "runner_59" /\ cont = "inheritor_138"
    /\ \E organizations \in runner_68(future) :
          IF organizations.t = "raise"
          THEN Crash
          ELSE IF ~Truthy(organizations)
          THEN /\ popup' = "Failed to retrieve organizations"
               /\ gui' = "main_346"
               /\ cont' = "none"
          ELSE \E again \in OrganizationsResults :
                  IF again = PyNone
                  THEN Crash
                  ELSE /\ gui' = "inheritor_177"
                       /\ cont' = "none"
                       /\ popup' = popup
    /\ UNCHANGED <<guiRest, future, workers, cli, organization_id, objects,
                   collection_name, child_collection_ids, collection_conf, launched>>

\* inheritor_gui, lines 177-179 and 294: the window is closed
inheritor_178 ==
    /\ gui = "inheritor_177"
    /\ gui' = "main_346"
    /\ UNCHANGED <<guiRest, popup, cont, future, workers, cli, organization_id, objects,
                   collection_name, child_collection_ids, collection_conf, launched>>

\* ofunctions.misc.get_key_from_value: the first key that has the value
get_key_from_value(d, value) ==
    IF \E i \in DOMAIN d : d[i].name = value
    THEN d[CHOOSE i \in DOMAIN d : d[i].name = value
                                   /\ \A j \in 1..(i - 1) : d[j].name # value].id
    ELSE NoId

\* inheritor_gui, lines 180-187: an organization is chosen
inheritor_180 ==
    /\ gui = "inheritor_177"
    /\ \E org \in Orgs :
          /\ organization_id' = org
          /\ RunnerStart(Worker("org_collections", cli, org, NoId), "inheritor_193")
    /\ UNCHANGED <<guiRest, popup, cli, objects, collection_name,
                   child_collection_ids, collection_conf, launched>>

\* objects["collections"][id] = name: a key the dict has keeps its place
DictSet(d, id, name) ==
    IF \E i \in DOMAIN d : d[i].id = id
    THEN [i \in DOMAIN d |-> IF d[i].id = id THEN [id |-> id, name |-> name] ELSE d[i]]
    ELSE Append(d, [id |-> id, name |-> name])

\* lines 199-200: for col in collections: objects["collections"][col["id"]] = col["name"]
RECURSIVE DictUpdate(_, _)
DictUpdate(d, ids) ==
    IF ids = <<>> THEN d
    ELSE DictUpdate(DictSet(d, Head(ids), CollectionNames[Head(ids)]), Tail(ids))

\* inheritor_gui, lines 193-203: the collections have been fetched
inheritor_193 ==
    /\ gui = "runner_59" /\ cont = "inheritor_193"
    /\ \E collections \in runner_68(future) :
          IF ~Truthy(collections)
          THEN /\ popup' = "Failed to retrieve collections"
               /\ objects' = objects
          ELSE /\ objects' = DictUpdate(objects,
                                 SubSeq(collections.v, 2, Len(collections.v) - 1))
               /\ popup' = popup
    /\ gui' = "inheritor_177"
    /\ cont' = "none"
    /\ UNCHANGED <<guiRest, future, workers, cli, organization_id, collection_name,
                   child_collection_ids, collection_conf, launched>>

\* collection.startswith(prefix)
startswith(str, prefix) ==
    Len(str) >= Len(prefix) /\ SubSeq(str, 1, Len(prefix)) = prefix

\* lines 205-212: the ids found for the names that start with "<name>/"
Children(d, name) ==
    LET hits == SelectSeq(d, LAMBDA e : startswith(e.name, name \o <<"/">>))
    IN  [i \in 1..Len(hits) |-> get_key_from_value(d, hits[i].name)]

\* inheritor_gui, lines 204-223: a collection is chosen among the names listed
inheritor_204 ==
    /\ gui = "inheritor_177"
    /\ \E i \in DOMAIN objects :
          /\ collection_name' = objects[i].name
          /\ child_collection_ids' = Children(objects, objects[i].name)
          /\ RunnerStart(Worker("org_collection", cli, organization_id,
                                get_key_from_value(objects, objects[i].name)),
                         "inheritor_224")
    /\ UNCHANGED <<guiRest, popup, cli, organization_id, objects, collection_conf,
                   launched>>

\* inheritor_gui, lines 224-258: the collection has been fetched; subscripting
\* None raises TypeError, which no except clause of the window catches
inheritor_224 ==
    /\ gui = "runner_59" /\ cont = "inheritor_224"
    /\ \E result \in runner_68(future) :
          /\ collection_conf' = result
          /\ IF result = PyNone
             THEN Crash
             ELSE /\ gui' = "inheritor_177"
                  /\ cont' = "none"
                  /\ popup' = popup
    /\ UNCHANGED <<guiRest, future, workers, cli, organization_id, objects,
                   collection_name, child_collection_ids, launched>>

\* inheritor_gui, lines 259-293: "Inherit Permissions to all children"
inheritor_259 ==
    /\ gui = "inheritor_177"
    /\ IF organization_id # NoId /\ child_collection_ids # <<>> /\ Truthy(collection_conf)
       THEN /\ launched' = [org |-> organization_id, ids |-> child_collection_ids,
                            source |-> DocId(collection_conf.v)]
            /\ popup' = "none"
       ELSE /\ launched' = launched
            /\ popup' = "Please select an organization and a collection"
    /\ UNCHANGED <<guiRest, gui, cont, future, workers, cli, organization_id, objects,
                   collection_name, child_collection_ids, collection_conf>>

\* main_gui, lines 297-345: the window is shown
InitGui ==
    /\ session = PyNone
    /\ use_rest \in BOOLEAN
    /\ rest_is_running = FALSE
    /\ env = PyNone
    /\ pc = "idle"
    /\ stack = <<>>
    /\ args = NoCmd
    /\ rv = PyNone
    /\ op = "none"
    /\ server_url = PyNone
    /\ pre = [session |-> session, rest_is_running |-> FALSE]
    /\ issued = <<>>
    /\ threads = [l \in ThreadLines |-> 0]
    /\ sidecars = 0
    /\ hooks = 0
    /\ vault = [c \in Ids |-> Doc(c, NameOf(c), <<"u0">>, <<"g0">>)]
    /\ collection_ids = <<>>
    /\ user_permissions = <<>>
    /\ group_permissions = <<>>
    /\ pos = 0
    /\ index = 0
    /\ collection = PyNone
    /\ has_failures = FALSE
    /\ output = <<>>
    /\ progress = 0
    /\ popup = "none"
    /\ NoConfig
    /\ gui = "main_346"
    /\ cont = "none"
    /\ future = Pending
    /\ workers = <<>>
    /\ cli = 0
    /\ NoSelection
    /\ launched = NoLaunch

NextGui ==
    \/ main_347 \/ main_349 \/ main_369 \/ main_383
    \/ call_with_future
    \/ inheritor_138 \/ inheritor_178 \/ inheritor_180 \/ inheritor_193
    \/ inheritor_204 \/ inheritor_224 \/ inheritor_259

SpecGui == InitGui /\ [][NextGui]_vars

----------------------------------------------------------------------------
(* The configuration file (configuration.py).  A configuration is the list *)
(* of its leaves in file order, each with its dotted key as a sequence of  *)
(* segments and its value; the file holds the configuration dumped last.   *)

ID_STRING == "__BITWARDEN_API_TOOLKIT__"

ENCRYPTED_OPTIONS == {<<"admin_api", "credentials", "password">>,
                      <<"admin_api", "credentials", "client_secret">>}

\* the leaves of the configuration that save_config is given here
ConfigKeys == <<<<"admin_api", "credentials", "username">>,
                <<"admin_api", "credentials", "password">>,
                <<"admin_api", "credentials", "client_secret">>>>

PyInt(digits) == [t |-> "int", v |-> digits]

\* `option in key` for dotted names
Within(option, key) ==
    \E i \in 0..(Len(key) - Len(option)) :
        SubSeq(key, i + 1, i + Len(option)) = option

\* lines 142-150
key_should_be_encrypted(key, encrypted_options) ==
    key # <<>> /\ \E option \in encrypted_options : Within(option, key)

endswith(str, suffix) ==
    Len(str) >= Len(suffix)
    /\ SubSeq(str, Len(str) - Len(suffix) + 1, Len(str)) = suffix

\* value.startswith(ID_STRING) and value.endswith(ID_STRING) for a str
IsWrapped(value) ==
    /\ value.t = "str"
    /\ startswith(value.v, <<ID_STRING>>)
    /\ endswith(value.v, <<ID_STRING>>)

\* enc.encrypt_message_hf(value, aes_key, ID_STRING, ID_STRING), lines 168-170:
\* the value of any type, enciphered between a header and a footer
encrypt_message_hf(value) ==
    Str(<<ID_STRING, "aes", value.t>> \o value.v \o <<ID_STRING>>)

\* enc.decrypt_message_hf, lines 177-182: the value that was enciphered
decrypt_message_hf(value) ==
    [t |-> value.v[3], v |-> SubSeq(value.v, 4, Len(value.v) - 1)]

\* _crypt_config, lines 158-184
crypt_value(key, value, operation) ==
    IF key_should_be_encrypted(key, ENCRYPTED_OPTIONS) /\ value # PyNone
    THEN IF operation = "encrypt"
         THEN IF (value.t = "str" /\ ~IsWrapped(value)) \/ value.t # "str"
              THEN encrypt_message_hf(value) ELSE value
         ELSE IF IsWrapped(value) THEN decrypt_message_hf(value) ELSE value
    ELSE value

\* lines 153-197, for the operations "encrypt" and "decrypt"
crypt_config(config, operation) ==
    [i \in DOMAIN config |->
        [config[i] EXCEPT !.value = crypt_value(config[i].key, @, operation)]]

\* lines 200-220: only a str that is not wrapped makes it False
is_encrypted(config) ==
    ~\E i \in DOMAIN config :
        /\ key_should_be_encrypted(config[i].key, ENCRYPTED_OPTIONS)
        /\ config[i].value # PyNone
        /\ config[i].value.t = "str"
        /\ ~IsWrapped(config[i].value)

\* the values a leaf may hold in memory: nothing, a str, an empty str, what
\* YAML loads from digits, and a str enciphered before
ConfigValues == {PyNone, Str(<<"p", "w">>), Str(<<>>), PyInt(<<"1", "2">>),
                 encrypt_message_hf(Str(<<"p", "w">>))}

Configs ==
    {[i \in DOMAIN ConfigKeys |-> [key |-> ConfigKeys[i], value |-> f[i]]] :
        f \in [DOMAIN ConfigKeys -> ConfigValues]}

\* everything but the configuration, the line save_config stands at and its result
configRest == <<session, use_rest, rest_is_running, env, pc, stack, args, op,
                server_url, pre, issued, threads, sidecars, hooks, vault,
                collection_ids, user_permissions, group_permissions, pos, index,
                collection, has_failures, output, progress, popup, cont, future,
                workers, cli, organization_id, objects, collection_name,
                child_collection_ids, collection_conf, launched>>

\* line 314: open(config_file, "w") empties the file, or raises OSError and
\* save_config returns False at line 329
save_config_314 ==
    /\ gui = "save_config_314"
    /\ \/ /\ config_file' = <<>>
          /\ gui' = "save_config_315"
          /\ rv' = rv
       \/ /\ config_file' = config_file
          /\ gui' = "save_config_end"
          /\ rv' = PyFalse
    /\ UNCHANGED <<configRest, kwargs, full_config>>

\* lines 315-318
save_config_315 ==
    /\ gui = "save_config_315"
    /\ full_config' = IF ~is_encrypted(full_config)
                      THEN crypt_config(full_config, "encrypt")
                      ELSE full_config
    /\ gui' = "save_config_320"
    /\ UNCHANGED <<configRest, kwargs, config_file, rv>>

\* lines 319-320: yaml.dump(full_config, file_handle), or OSError while writing
save_config_320 ==
    /\ gui = "save_config_320"
    /\ \/ /\ config_file' = full_config
          /\ gui' = "save_config_322"
          /\ rv' = rv
       \/ /\ config_file' = config_file
          /\ gui' = "save_config_end"
          /\ rv' = PyFalse
    /\ UNCHANGED <<configRest, kwargs, full_config>>

\* lines 322-326
save_config_322 ==
    /\ gui = "save_config_322"
    /\ full_config' = crypt_config(full_config, "decrypt")
    /\ gui' = "save_config_end"
    /\ rv' = PyTrue
    /\ UNCHANGED <<configRest, kwargs, config_file>>

\* save_config(config_file, full_config) is called with a configuration, the
\* file holding nothing or an earlier dump
InitConfig ==
    /\ session = PyNone
    /\ use_rest = FALSE
    /\ rest_is_running = FALSE
    /\ env = PyNone
    /\ pc = "idle"
    /\ stack = <<>>
    /\ args = NoCmd
    /\ rv = PyNone
    /\ op = "none"
    /\ server_url = PyNone
    /\ pre = [session |-> session, rest_is_running |-> FALSE]
    /\ issued = <<>>
    /\ threads = [l \in ThreadLines |-> 0]
    /\ sidecars = 0
    /\ hooks = 0
    /\ vault = [c \in Ids |-> Doc(c, NameOf(c), <<"u0">>, <<"g0">>)]
    /\ collection_ids = <<>>
    /\ user_permissions = <<>>
    /\ group_permissions = <<>>
    /\ pos = 0
    /\ index = 0
    /\ collection = PyNone
    /\ has_failures = FALSE
    /\ output = <<>>
    /\ progress = 0
    /\ popup = "none"
    /\ full_config \in Configs
    /\ config_file = <<>>
    /\ kwargs = NoKwargs
    /\ gui = "save_config_314"
    /\ cont = "none"
    /\ future = Pending
    /\ workers = <<>>
    /\ cli = 0
    /\ NoSelection
    /\ launched = NoLaunch

NextConfig ==
    save_config_314 \/ save_config_315 \/ save_config_320 \/ save_config_322

SpecConfig == InitConfig /\ [][NextConfig]_vars

----------------------------------------------------------------------------
(* Properties of the client (Spec).                                        *)

\* the call of method m has returned to the caller, who has called nothing since
Returned(m) == pc = "idle" /\ op = m

\* what run returned for the i-th command of the call
IssuedResult(i) == issued[i].res

\* C5: BW_SESSION is in the process environment only while a command of run
\* is executing (between line 161 and line 169); once run has returned, on
\* any path, it is absent.
C5_TokenOnlyWhileCommandRuns ==
    env # PyNone => pc \in {"run_166", "run_169"}

\* C6: when config(server_url) finds the vault locked or unlocked, a logout
\* command precedes the "config server <url>" command and no token is held
\* when that command is issued.
C6_ConfigUrlAfterLogoutHoldsNoToken ==
    \A i \in DOMAIN issued :
        ( /\ op = "config"
          /\ issued[i].cmd = "config_set"
          /\ config_must_logout(status_value(IssuedResult(1))) )
        => /\ \E j \in 1..(i - 1) : issued[j].cmd = "logout"
           /\ ~Truthy(issued[i].held)

\* C8: status reported locked and unlock() succeeded: login_as_user returned
\* True after exactly the status and one unlock command, no login command,
\* and the token held is the unlock output (trimmed, as every token is).
C8_LockedLoginOnlyUnlocks ==
    ( /\ Returned("login_as_user")
      /\ Len(issued) >= 2
      /\ status_value(IssuedResult(1)) = PyFalse
      /\ Truthy(IssuedResult(2)) )
    => /\ rv = PyTrue
       /\ Len(issued) = 2
       /\ issued[2].cmd = "unlock"
       /\ \A i \in DOMAIN issued : issued[i].cmd # "login"
       /\ session = Strip(IssuedResult(2))

C8_Witness ==
    /\ Returned("login_as_user")
    /\ Len(issued) = 2
    /\ status_value(IssuedResult(1)) = PyFalse
    /\ issued[2].cmd = "unlock"
    /\ issued[2].out = <<"a", "\n">>
    /\ pre.session = Str(<<"s">>)
    /\ session = Str(<<"a">>)
    /\ rv = PyTrue

\* C9: logout() clears the token exactly when the logout command succeeded
\* (exit status 0); when the command failed the token is as before the call
\* and logout() returns False.
C9_LogoutClearsIffCommandSucceeded ==
    Returned("logout") =>
        IF issued[1].exit = 0
        THEN session = PyNone /\ rv = PyTrue
        ELSE session = pre.session /\ rv = PyFalse

\* C10: status reported unlocked: login_as_user returned True having issued
\* the status command only, and the token is the one held before the call
\* (so any number of such calls in a row leaves the token of the first).
C10_UnlockedLoginKeepsSession ==
    ( /\ Returned("login_as_user")
      /\ Len(issued) >= 1
      /\ status_value(IssuedResult(1)) = PyTrue )
    => /\ rv = PyTrue
       /\ Len(issued) = 1
       /\ session = pre.session

C10_Witness ==
    /\ Returned("login_as_user")
    /\ Len(issued) = 1
    /\ status_value(IssuedResult(1)) = PyTrue
    /\ pre.session = Str(<<"a">>)
    /\ session = Str(<<"a">>)
    /\ rv = PyTrue
    /\ sidecars = 1

\* C11: login_as_user issues the login command only when status() gave
\* neither unlocked nor locked; when it gave locked and the unlock failed,
\* login_as_user returns False after the status and the unlock command alone.
C11_LoginOnlyWhenUnauthenticated ==
    op = "login_as_user" =>
        /\ \A i \in DOMAIN issued :
              issued[i].cmd = "login" => status_value(IssuedResult(1)) = PyNone
        /\ ( /\ Returned("login_as_user")
             /\ Len(issued) >= 2
             /\ status_value(IssuedResult(1)) = PyFalse
             /\ ~Truthy(IssuedResult(2)) )
           => rv = PyFalse /\ Len(issued) = 2

C13_AtMostOneSidecar ==
    use_rest => sidecars <= 1

\* C14: every "bw serve" process spawned has its kill hook registered, so
\* that none is alive once the owning process has exited, whenever it exits.
C14_NoSidecarSurvivesExit ==
    pc = "exited" => Survivors = 0

\* C17: status() returns True exactly when the status command exits 0 and
\* reports unlocked, False exactly when it exits 0 and reports locked, and
\* None for every other outcome of the command.
C17_StatusMapsEveryOutcome ==
    Returned("status") =>
        rv = IF issued[1].exit = 0 /\ issued[1].out = <<"{status:unlocked}">> THEN PyTrue
             ELSE IF issued[1].exit = 0 /\ issued[1].out = <<"{status:locked}">> THEN PyFalse
             ELSE PyNone

TransportMethods == {"list", "get", "edit"}

\* C15: a command that exits with a non-zero status, and a request that gets
\* no response or a failure envelope, give None; list, get and edit return to
\* their caller what the transport gave, None included, and raise nothing.
C15_FailedTransportGivesNone ==
    /\ \A i \in DOMAIN issued : issued[i].exit # 0 => issued[i].res = PyNone
    /\ \A m \in TransportMethods :
          Returned(m) => /\ rv = Last.res
                         /\ Last.exit # 0 => rv = PyNone
                         /\ rv.t # "raise"

C15_Witness ==
    /\ Returned("edit")
    /\ ~use_rest
    /\ Len(issued) = 2
    /\ issued[1].cmd = "encode"
    /\ issued[1].exit = 0
    /\ issued[2].cmd = "edit"
    /\ issued[2].exit = 1
    /\ rv = PyNone

\* C19: status() gave unlocked or locked (the client is authenticated):
\* login_as_api returned True having issued the status command only, and the
\* token is the one held before the call.
C19_ApiLoginWhenAuthenticated ==
    ( /\ Returned("login_as_api")
      /\ Len(issued) >= 1
      /\ status_value(IssuedResult(1)) \in {PyTrue, PyFalse} )
    => /\ rv = PyTrue
       /\ Len(issued) = 1
       /\ session = pre.session

\* the lines at which a session method assigns the token
TokenLines == {"logout_234", "unlock_250", "login_as_user_265", "login_as_user_288",
               "login_as_api_317"}

\* the methods within which the token may change
TokenMethods == {"login_as_user", "login_as_api", "unlock", "logout", "config"}

\* C20: the token changes only in a step of logout, unlock, login_as_user or
\* login_as_api (the logout within config included): no step of run, status,
\* list, get, edit, encode or of a run_server thread changes it.
C20_TokenChangesOnlyInSessionMethods ==
    [][session' # session =>
          /\ pc \in TokenLines
          /\ op \in TokenMethods
          /\ op = "config" => pc = "logout_234"]_vars

C20_Witness ==
    /\ Returned("edit")
    /\ Len(issued) >= 1
    /\ pre.session = Str(<<"a">>)
    /\ session = Str(<<"a">>)
    /\ Running > 0

\* C25: in REST mode, when login_as_user returns True the "bw serve" process
\* has been spawned and _rest_is_running is set.
C25_SidecarRunningAtReturn ==
    (Returned("login_as_user") /\ use_rest /\ rv = PyTrue)
        => rest_is_running /\ sidecars >= 1

\* C26: once every run_server thread has finished, and no command of run is
\* executing, BW_SESSION is not in the process environment.
C26_ServerStartLeavesNoToken ==
    (Running = 0 /\ pc \notin {"run_166", "run_169"}) => env = PyNone

\* C27: a "bw serve" process spawned while a token is held is spawned with
\* BW_SESSION equal to that token.
C27_SidecarSpawnedWithToken ==
    [][(sidecars' > sidecars /\ Truthy(session)) => env = session]_vars

\* C30: in process mode, when the encode command fails, edit returns None
\* and the encode command is the only one issued.
C30_FailedEncodeIssuesNoEdit ==
    ( /\ Returned("edit")
      /\ ~use_rest
      /\ issued[1].cmd = "encode"
      /\ issued[1].exit # 0 )
    => rv = PyNone /\ Len(issued) = 1

\* the text s occurs in the message m
Contains(m, s) ==
    /\ s # <<>>
    /\ \E i \in 1..Len(m) : i + Len(s) - 1 <= Len(m) /\ SubSeq(m, i, i + Len(s) - 1) = s

\* the password and the token held
Secrets == {Password} \cup (IF Truthy(session) THEN {session.v} ELSE {})

\* C22: no logged message contains the password or the session token held.
C22_NoSecretInLog == \A m \in Log : \A s \in Secrets : ~Contains(m, s)

\* C24: without the executable the construction raises FileNotFoundError and
\* no command, request or thread follows; no method of a client that was
\* constructed ends by raising.
C24_OnlyConstructionRaises ==
    /\ pc = "no_client" =>
          /\ rv = PyRaise("FileNotFoundError")
          /\ issued = <<>> /\ Running = 0 /\ sidecars = 0 /\ op = "none"
    /\ rv.t = "raise" => pc = "no_client"

\* C35: in process mode login_as_user returns True exactly when status() gave
\* True or its unlock or login command gave a result, and False otherwise
\* unless status() raised: starting the server never makes it False.
C35_ProcessLoginSuccess ==
    (Returned("login_as_user") /\ ~use_rest) =>
        LET unlocked == status_value(issued[1].res) = PyTrue
            got      == \E p \in DOMAIN issued :
                            /\ issued[p].cmd \in {"unlock", "login"}
                            /\ Truthy(issued[p].res)
        IN  /\ rv = PyTrue <=> (unlocked \/ got)
            /\ rv.t # "raise" => rv \in {PyTrue, PyFalse}

\* in process mode the vault was locked, the unlock command gave a token and
\* login_as_user returned True, a run_server thread having been started
C35_Witness ==
    /\ Returned("login_as_user")
    /\ ~use_rest
    /\ Len(issued) = 2
    /\ Last.cmd = "unlock"
    /\ Truthy(Last.res)
    /\ rv = PyTrue
    /\ Running > 0

\* C36: when login_as_user, login_as_api or unlock returns True after its
\* command, the token held is the output of that command without the
\* surrounding whitespace, and is not empty.
C36_TokenIsTrimmedOutput ==
    ( /\ pc = "idle"
      /\ op \in {"login_as_user", "login_as_api", "unlock"}
      /\ rv = PyTrue
      /\ issued # <<>>
      /\ Last.cmd \in {"unlock", "login", "login_apikey"} )
    => /\ session = Strip(Str(Last.out))
       /\ Truthy(session)

----------------------------------------------------------------------------
(* Properties of the round trip (SpecRoundTrip).                           *)

\* C23: when the vault answers the get of a listed organization with the
\* object stored, get returns an object whose id is the listed id, in process
\* mode and in REST mode.
C23_GetReturnsListedOrganization ==
    ( /\ pc = "roundtrip_end"
      /\ Len(issued) = 2
      /\ Last.exit = 0
      /\ HasKey(Last.out, "id") )
    => /\ args.id \in Elements(issued[1].res.v)
       /\ Truthy(rv)
       /\ DocId(rv.v) = args.id

\* in REST mode the second organization of the list has been got
C23_Witness ==
    /\ pc = "roundtrip_end"
    /\ use_rest
    /\ Len(issued) = 2
    /\ issued[1].res = Json(<<"[", "c1", "c2", "]">>)
    /\ rv = Json(OrgDoc("c2", "OTHER ORG"))

----------------------------------------------------------------------------
(* Properties of the windows (SpecGui).                                    *)

\* the methods that change the session
SessionOps == {"config", "login_as_user", "unlock", "logout"}

\* the session-changing workers in flight against client c
InFlight(c) == {i \in DOMAIN workers : workers[i].cli = c /\ workers[i].fn \in SessionOps}

\* C21: at most one of config, login_as_user, unlock and logout is in flight
\* against a client, and while a worker is in flight the GUI thread waits in
\* minimal_gui_thread_runner, where it can start nothing.
C21_OneSessionOperationAtATime ==
    /\ \A c \in 1..MaxClients : Cardinality(InFlight(c)) <= 1
    /\ workers # <<>> => gui = "runner_59" /\ ~future.done

\* the login of the second client is in flight, its config having ended
C21_Witness ==
    /\ workers = <<Worker("login_as_user", 2, NoId, NoId)>>
    /\ gui = "runner_59"
    /\ cont = "main_383"

\* C28: the targets and the source collection of a launched run belong to the
\* organization whose id is passed to the run.
C28_LaunchWithinOrganization ==
    launched # NoLaunch =>
        /\ \A i \in DOMAIN launched.ids : OrgOf(launched.ids[i]) = launched.org
        /\ OrgOf(launched.source) = launched.org

\* C29: once a parent collection is chosen, the target list holds the id of
\* every listed collection whose name starts with "<parent>/" exactly once,
\* and nothing else.
C29_TargetsAreTheChildrenOnce ==
    (gui = "runner_59" /\ cont = "inheritor_224") =>
        LET want == {objects[i].id : i \in {j \in DOMAIN objects :
                        startswith(objects[j].name, collection_name \o <<"/">>)}}
        IN  /\ \A k \in want :
                  Cardinality({j \in DOMAIN child_collection_ids :
                                  child_collection_ids[j] = k}) = 1
            /\ \A j \in DOMAIN child_collection_ids : child_collection_ids[j] \in want

----------------------------------------------------------------------------
(* Properties of the inheritance run (SpecInherit).                        *)

N == Len(collection_ids)

\* the run has ended: its popup is on the screen
RunEnded == pc = "window_59" /\ popup # "none"

\* the loop over the targets is over (line 113 reached or passed)
LoopEnded == pc = "inherit_113" \/ RunEnded

IsFetch(r)  == r.cmd \in {"get", "read"}
IsUpdate(r) == r.cmd \in {"edit", "update"}

\* the fetches and the updates of the run, in the order they were made
Fetches == SelectSeq(issued, IsFetch)
Updates == SelectSeq(issued, IsUpdate)

\* the fetch gave a collection
Fetched(r) == Truthy(r.res) /\ HasKey(r.res.v, "name")

\* the ids of the targets other than the K-th, in input order
Without(K) == [j \in 1..(N - 1) |-> collection_ids[IF j < K THEN j ELSE j + 1]]

\* the number of the target each command or request of the run is for: the
\* number of fetches made up to it
TargetOf == [p \in DOMAIN issued |-> Cardinality({q \in 1..p : IsFetch(issued[q])})]

\* C1: a run in which the fetch of exactly one target K returns no result and
\* every other fetch, encode and update succeeds fetches all N targets in
\* order, updates every target but K, and shows N-1 "updated" lines and one
\* "not found" line, the one of K, in the place of K.
C1_OneUnreachableTarget ==
    LoopEnded =>
        LET F == Fetches
            U == Updates
        IN  \A K \in 1..N :
                ( /\ Len(F) >= K
                  /\ ~Truthy(F[K].res)
                  /\ \A j \in DOMAIN F : j # K => Fetched(F[j])
                  /\ \A p \in DOMAIN issued :
                        ~IsFetch(issued[p]) => Truthy(issued[p].res) )
                => /\ Len(F) = N
                   /\ \A j \in 1..N : F[j].id = collection_ids[j]
                   /\ Len(U) = N - 1
                   /\ \A j \in 1..(N - 1) : U[j].id = Without(K)[j]
                   /\ output = [j \in 1..N |->
                                  Line(IF j = K THEN "not found" ELSE "updated",
                                       collection_ids[j])]

C1_Witness ==
    /\ RunEnded
    /\ collection_ids = <<"c2", "c1">>
    /\ output = <<Line("not found", "c2"), Line("updated", "c1")>>
    /\ ~Truthy(Fetches[1].res)
    /\ Len(Updates) = 1
    /\ Updates[1].id = "c1"
    /\ ~use_rest

\* C2: the run ends with "all updated" only if every target was updated; a
\* target not found, not updated or in error ends it with "some failed".
C2_PopupTellsFailures ==
    RunEnded =>
        ( popup = "all updated" <=> \A j \in DOMAIN output : output[j].kind = "updated" )

\* C3: the targets are fetched in input order, one fetch each; what is sent
\* for a target (encode, update) comes after its fetch and before the next
\* fetch, at most one update each (an update is followed by nothing but the
\* next fetch); and whatever failed, the loop ends only after the last target
\* has been fetched and has its line.
C3_EveryTargetOnceInOrder ==
    LET F == Fetches
        T == TargetOf
    IN  /\ Len(F) <= N
        /\ \A j \in DOMAIN F : F[j].id = collection_ids[j]
        /\ \A p \in DOMAIN issued :
              ~IsFetch(issued[p]) =>
                  /\ T[p] >= 1
                  /\ issued[p].id = collection_ids[T[p]]
        /\ \A p \in DOMAIN issued :
              (IsUpdate(issued[p]) /\ p < Len(issued)) => IsFetch(issued[p + 1])
        /\ (pc \in {"inherit_67", "inherit_73", "inherit_87"} => Len(F) >= pos)
        /\ LoopEnded =>
              /\ Len(F) = N
              /\ Len(output) = N
              /\ \A j \in 1..N : output[j].id = collection_ids[j]

C3_Witness ==
    /\ RunEnded
    /\ N = 2
    /\ Len(Fetches) = 2
    /\ output[1].kind \in {"failed", "error", "not found"}
    /\ output[2].kind \in {"failed", "error", "not found"}
    /\ output[1].kind # output[2].kind

\* the collection an update carries: decoded from the command argument in
\* process mode, the request body in REST mode
Sent(r) == IF r.cmd = "edit" THEN json_loads(Str(B64Decode(r.data.v))) ELSE r.data

\* the update carries a collection (in process mode: the encode step gave one)
CarriesCollection(r) ==
    IF r.cmd = "edit" THEN r.data.t = "str" /\ IsB64(r.data.v) ELSE r.data.t = "json"

\* C4: the collection an update carries has the supplied users when that list
\* is not empty and the fetched users when it is, and likewise the groups;
\* and after a run that updated every target, each target holds in the vault
\* the supplied users (groups), or the ones it had when the list is empty.
C4_PermissionsReplaced ==
    LET F == Fetches
        T == TargetOf
    IN  /\ \A p \in DOMAIN issued :
              (IsUpdate(issued[p]) /\ CarriesCollection(issued[p])) =>
                  LET sent    == Sent(issued[p]).v
                      fetched == F[T[p]].res.v
                  IN  /\ Users(sent) =
                            IF user_permissions # <<>> THEN user_permissions
                            ELSE Users(fetched)
                      /\ Groups(sent) =
                            IF group_permissions # <<>> THEN group_permissions
                            ELSE Groups(fetched)
                      /\ DocId(sent) = DocId(fetched)
                      /\ DocName(sent) = DocName(fetched)
        /\ (RunEnded /\ \A j \in DOMAIN output : output[j].kind = "updated") =>
              \A j \in 1..N :
                  /\ Users(vault[collection_ids[j]]) =
                        IF user_permissions # <<>> THEN user_permissions
                        ELSE Users(F[j].res.v)
                  /\ Groups(vault[collection_ids[j]]) =
                        IF group_permissions # <<>> THEN group_permissions
                        ELSE Groups(F[j].res.v)

C4_Witness ==
    /\ RunEnded
    /\ ~use_rest
    /\ collection_ids = <<"c2">>
    /\ user_permissions = <<"u1">>
    /\ group_permissions = <<>>
    /\ output = <<Line("updated", "c2")>>
    /\ Users(Fetches[1].res.v) = <<"u0">>
    /\ Users(vault["c2"]) = <<"u1">>
    /\ Groups(vault["c2"]) = <<"g0">>
    /\ Users(vault["c1"]) = <<"u0">>

\* C7: in process mode an edit command comes right after an encode command on
\* its payload and carries what encode returned, the encoded payload; in REST
\* mode nothing is encoded and the update request carries the payload itself.
C7_EncodeBeforeEdit ==
    /\ \A p \in DOMAIN issued :
          issued[p].cmd = "edit" =>
              /\ ~use_rest
              /\ p > 2
              /\ issued[p - 1].cmd = "encode"
              /\ issued[p - 1].id = issued[p].id
              /\ issued[p - 1].data =
                    with_permissions(issued[p - 2].res, user_permissions,
                                     group_permissions)
              /\ issued[p].data = issued[p - 1].res
              /\ (issued[p - 1].exit = 0 =>
                    issued[p].data = Str(B64(json_dumps(issued[p - 1].data).v)))
    /\ \A p \in DOMAIN issued :
          issued[p].cmd = "update" =>
              /\ use_rest
              /\ p > 1
              /\ issued[p].data =
                    with_permissions(issued[p - 1].res, user_permissions,
                                     group_permissions)
    /\ (use_rest => \A p \in DOMAIN issued : issued[p].cmd # "encode")
    /\ (pc = "inherit_87" => IsUpdate(Last))

C7_Witness ==
    /\ ~use_rest
    /\ pc = "inherit_87"
    /\ Len(issued) = 3
    /\ issued[2].cmd = "encode"
    /\ issued[3].cmd = "edit"
    /\ issued[3].exit = 0
    /\ issued[3].data = Str(B64(json_dumps(collection).v))
    /\ Users(collection.v) = <<"u1">>

\* the fetch gave an object on which line 79 raises (KeyError: no 'name')
RaisesOn(r) == Truthy(r.res) /\ ~HasKey(r.res.v, "name")

\* the j-th fetch has returned and its iteration is over
IterationOver(j) ==
    Len(Fetches) > j \/ (Len(Fetches) = j /\ pc \notin {"run_169", "run_173", "inherit_73"})

\* C16: a target whose processing raises gets, within its own iteration, an
\* "error" line naming it and no update; the run goes on to the next target
\* and ends only after the last one.
C16_RaisedErrorIsCaught ==
    LET F == Fetches
        T == TargetOf
    IN  \A j \in DOMAIN F :
            RaisesOn(F[j]) =>
                /\ IterationOver(j) =>
                      /\ Len(output) >= j
                      /\ output[j] = Line("error", collection_ids[j])
                      /\ pc \in {"window_59", "closed", "inherit_67", "inherit_73",
                                 "inherit_87", "inherit_113", "run_161", "run_166",
                                 "run_169", "run_173", "run_as_rest_109", "encode_388"}
                /\ \A p \in DOMAIN issued : IsUpdate(issued[p]) => T[p] # j
                /\ LoopEnded => Len(F) = N /\ Len(output) = N

C16_Witness ==
    /\ LoopEnded
    /\ N = 2
    /\ RaisesOn(Fetches[1])
    /\ output[1] = Line("error", collection_ids[1])
    /\ output[2] = Line("updated", collection_ids[2])
    /\ Len(Updates) = 1

\* C34: when the run has ended, the count shown in "n/N collections
\* processed" is N.
C34_ProcessedCountIsN == RunEnded => progress = N

\* C38: every update of a run is for the target the loop stands at, a member
\* of the target list, and the fetch of that target gave a collection: nothing
\* is updated that is not listed, was not found, or raised before the update.
C38_UpdatesOnlyForFoundTargets ==
    LET fs == Fetches
        t  == TargetOf
    IN  \A p \in DOMAIN issued :
            IsUpdate(issued[p]) =>
                /\ t[p] \in 1..N
                /\ issued[p].id = collection_ids[t[p]]
                /\ Fetched(fs[t[p]])

\* two targets: the first gave an object without a name, the second was updated
C38_Witness ==
    /\ RunEnded
    /\ N = 2
    /\ output[1].kind = "error"
    /\ output[2].kind = "updated"
    /\ Len(Updates) = 1
    /\ Updates[1].id = collection_ids[2]

\* the stored collection d has the supplied users and groups, as far as any
\* were supplied
Carries(d) ==
    /\ user_permissions # <<>> => Users(d) = user_permissions
    /\ group_permissions # <<>> => Groups(d) = group_permissions

\* the run in progress follows another: its first fetch gave a collection that
\* had the supplied users, which only the update of an earlier run can have stored
FollowsAnother ==
    /\ user_permissions # <<>>
    /\ issued # <<>>
    /\ IsFetch(issued[1])
    /\ Fetched(issued[1])
    /\ Users(issued[1].res.v) = user_permissions

\* C37: every execution, a repeated one included, fetches every target once
\* and in order, and no step changes a stored collection that already has the
\* supplied users and groups, as a target updated by an earlier execution has.
C37_RerunLeavesUpdatedTargets ==
    [][ /\ RunEnded =>
              LET fs == Fetches
              IN  /\ Len(fs) = N
                  /\ \A i \in 1..N : fs[i].id = collection_ids[i]
        /\ \A c \in Ids : Carries(vault[c]) => vault'[c] = vault[c] ]_vars

\* a repeated execution has ended: its first target had the supplied users
\* when it was fetched, and was updated again
C37_Witness ==
    /\ RunEnded
    /\ FollowsAnother
    /\ Updates # <<>>
    /\ Updates[1].id = collection_ids[1]
    /\ Updates[1].exit = 0

\* C37 as it was stated: no step of an execution that follows another changes
\* the users or the groups of a stored collection.
C37_RerunChangesNothing ==
    [][ FollowsAnother =>
            \A c \in Ids : /\ Users(vault'[c]) = Users(vault[c])
                           /\ Groups(vault'[c]) = Groups(vault[c]) ]_vars

----------------------------------------------------------------------------
(* Properties of the configuration file (SpecConfig).                      *)

\* the values the file holds under the options to encrypt
StoredSecrets ==
    {config_file[i].value : i \in {j \in DOMAIN config_file :
        key_should_be_encrypted(config_file[j].key, ENCRYPTED_OPTIONS)}}

\* C39: after save_config has returned True, every value other than None that
\* the file holds under admin_api.credentials.password and
\* admin_api.credentials.client_secret is in the ID_STRING-wrapped form,
\* whatever the type of the value in memory and whichever of the two were
\* already encrypted before the call.
C39_SavedSecretsAreEncrypted ==
    (gui = "save_config_end" /\ rv = PyTrue) =>
        \A value \in StoredSecrets : value # PyNone => IsWrapped(value)

----------------------------------------------------------------------------
(* Properties of the calls with arguments (SpecRest).                      *)

\* the requests and commands that reached the vault: all but the encoding
Reaching == SelectSeq(issued, LAMBDA r : r.cmd # "encode")

\* C31: whenever a data payload is supplied to org_collection or edit, the
\* request that reaches the vault is an update (an edit command in process
\* mode, an update-type request in REST mode) and never a read; whenever no
\* payload is supplied to org_collection, the request is a read and never an
\* update.
C31_PayloadSelectsUpdate ==
    (op \in {"org_collection", "edit"}) =>
        \A p \in DOMAIN Reaching :
            IF kwargs.data # PyNone
            THEN Reaching[p].cmd = (IF use_rest THEN "update" ELSE "edit")
            ELSE Reaching[p].cmd = (IF use_rest THEN "read" ELSE "get")

\* s cut at every sep
RECURSIVE Split(_, _)
Split(s, sep) ==
    IF ~HasKey(s, sep) THEN <<s>>
    ELSE <<SubSeq(s, 1, IndexOf(s, sep) - 1)>> \o
         Split(SubSeq(s, IndexOf(s, sep) + 1, Len(s)), sep)

\* the name=value pairs of the parameters supplied to list
SuppliedPairs ==
    {<<"organizationId=">> \o kwargs.organization_id.v : x \in
        {y \in {1} : kwargs.organization_id # PyNone}} \cup
    {<<"search=">> \o kwargs.search.v : x \in {y \in {1} : kwargs.search # PyNone}} \cup
    {<<"folderId=">> \o kwargs.folder_id.v : x \in
        {y \in {1} : kwargs.folder_id # PyNone}}

\* C32: in REST mode, list(kind, search, organization_id, folder_id) requests
\* the path /list/object/{kind} with a query string made of exactly the
\* supplied parameters among organizationId, search and folderId, each written
\* as name=value and joined by '&'.  A "/" between the kind and the "?" is
\* let pass.
C32_ListPathAndQuery ==
    (op = "list" /\ use_rest /\ issued # <<>>) =>
        LET path  == issued[1].path
            q     == IndexOf(path, "?")
            query == SubSeq(path, q + 1, Len(path))
            pairs == IF query = <<>> THEN <<>> ELSE Split(query, "&")
        IN  /\ HasKey(path, "?")
            /\ SubSeq(path, 1, q - 1) \in
                   {<<"/list/object/", kwargs.objects>>,
                    <<"/list/object/", kwargs.objects, "/">>}
            /\ {pairs[i] : i \in DOMAIN pairs} = SuppliedPairs
            /\ Len(pairs) = Cardinality(SuppliedPairs)

\* C33: in REST mode, a success envelope whose data.object is 'list' yields
\* data.data, a success envelope whose data.object is one of the recognised
\* single-object kinds yields data itself, and a success envelope of any other
\* kind yields None.
C33_UnwrapByKind ==
    \A p \in DOMAIN issued :
        (issued[p].cmd \in {"read", "update"} /\ issued[p].exit = 0) =>
            issued[p].res =
                IF issued[p].object = "list" THEN Json(DataOf(issued[p].body))
                ELSE IF issued[p].object \in RestKinds THEN Json(issued[p].body)
                ELSE PyNone

C33_Witness ==
    /\ pc = "idle"
    /\ op = "list"
    /\ use_rest
    /\ issued # <<>>
    /\ Last.exit = 0
    /\ Last.object = "list"
    /\ Last.body = <<"{", "object", "list", "data", "[", "c1", "c2", "]", "}">>
    /\ rv = Json(<<"[", "c1", "c2", "]">>)

====
